---- MODULE Spec2Model ----
(***************************************************************************)
(* The layered caching database CacheDB of crates/revm/src/db/             *)
(* in_memory_db.rs: the cache (accounts, contracts, block_hashes) over a   *)
(* read-only source db, its load-through (Database) and non-mutating       *)
(* (DatabaseRef) reads, its insert/replace helpers and commit.             *)
(*                                                                         *)
(* Encodings.  Option<T> is a set with at most one element.  A HashMap is  *)
(* a function whose DOMAIN is the set of present keys.  A Bytecode is a    *)
(* natural number, 0 being the empty bytecode; a B256 hash is a natural    *)
(* number, ZERO_HASH being B256::zero() and KECCAK_EMPTY the digest of the *)
(* empty bytecode; the digest is collision free.  A Result is a record     *)
(* with ok = FALSE for Err; calls lists the source methods invoked.        *)
(*                                                                         *)
(* The opcode handlers of crates/interpreter/src/instructions/host.rs: one *)
(* call frame (interpreter) of revision SPEC running handlers against a    *)
(* Host.  A U256 word is a natural number; the operand stack is a sequence *)
(* whose head is the top of the stack.                                     *)
(***************************************************************************)
EXTENDS Integers, Sequences, FiniteSets, TLC

VARIABLES accounts, contracts, block_hashes, db, last, interpreter, host, SPEC

vars == <<accounts, contracts, block_hashes, db, last, interpreter, host, SPEC>>

-----------------------------------------------------------------------------
(* Bounds of the model *)

NumAddr == 2
NumKeys == 2
MaxSteps == 1
MaxOperands == 4
MaxCallOperands == 7

(* Program constants *)

ZERO_HASH == 0
KECCAK_EMPTY == 1
U256_ZERO == 0

Addr == 1..NumAddr
Key == 1..NumKeys

(* Abstractions of the data: a U256 slot value is zero or one non-zero value, *)
(* a bytecode is empty or one non-empty code, and one block number is asked   *)
(* for.  The operations never compute with these values: they store, copy and *)
(* compare them with zero or with the empty bytecode.                         *)
NonZero == 1
Value == {U256_ZERO, NonZero}
Code == {0, 1}
BlockNum == {1}

None == {}
Some(x) == {x}
Unwrap(o) == CHOOSE x \in o : TRUE

EmptyMap == [k \in {} |-> 0]
Put(m, k, v) == [x \in (DOMAIN m) \cup {k} |-> IF x = k THEN v ELSE m[x]]
\* HashMap::extend: every pair of m2 is inserted into m1, overwriting
Extend(m1, m2) ==
    [x \in (DOMAIN m1) \cup (DOMAIN m2) |-> IF x \in DOMAIN m2 THEN m2[x] ELSE m1[x]]

-----------------------------------------------------------------------------
(* Primitives *)

\* Bytecode::hash: the digest of a bytecode, KECCAK_EMPTY for the empty one
CodeHash(c) == IF c = 0 THEN KECCAK_EMPTY ELSE c + 1

Hash == {ZERO_HASH, KECCAK_EMPTY} \cup {CodeHash(c) : c \in Code}

\* AccountInfo::default()
DefaultInfo == [balance |-> 0, nonce |-> 0, code_hash |-> KECCAK_EMPTY, code |-> Some(0)]

\* #[derive(Default)] DbAccount, with AccountState's #[default] None
DefaultDbAccount == [info |-> DefaultInfo, account_state |-> "None", storage |-> EmptyMap]

new_not_existing == [DefaultDbAccount EXCEPT !.account_state = "NotExisting"]

\* DbAccount::info
DbAccount_info(acc) == IF acc.account_state = "NotExisting" THEN None ELSE Some(acc.info)

\* impl From<Option<AccountInfo>> for DbAccount
FromOptionInfo(from) ==
    IF from # None
    THEN [info |-> Unwrap(from), account_state |-> "None", storage |-> EmptyMap]
    ELSE new_not_existing

\* a bug: an address the source has no info for gets the default record
FromSource_default(from) ==
    IF from # None
    THEN [DefaultDbAccount EXCEPT !.info = Unwrap(from)]
    ELSE DefaultDbAccount

\* the record a vacant entry gets in basic and load_account
FromSource(from) ==
    IF from # None
    THEN [DefaultDbAccount EXCEPT !.info = Unwrap(from)]
    ELSE new_not_existing

is_storage_cleared(state) == state = "StorageCleared"

\* a bug: only StorageCleared is taken to know the storage
KnowsStorage_only_cleared(acc) == is_storage_cleared(acc.account_state)

\* matches!(account_state, StorageCleared | NotExisting)
KnowsStorage(acc) == acc.account_state \in {"StorageCleared", "NotExisting"}

\* self.accounts.entry(address).or_default()
OrDefault(accs, a) == IF a \in DOMAIN accs THEN accs[a] ELSE DefaultDbAccount

-----------------------------------------------------------------------------
(* The source (ExtDB: DatabaseRef) *)

SrcMethods == {"basic", "storage", "code_by_hash", "block_hash"}

\* the account info a source reports for the accounts it has
SrcInfo == [balance |-> 1, nonce |-> 1, code_hash |-> KECCAK_EMPTY, code |-> None]

\* A source that has account info for the addresses of has, holds v in every
\* slot, and answers code_by_hash with the code of that digest (honest) or with
\* the empty bytecode for every hash (as EmptyDB does).
Source(has, v, honest) ==
    [basic |-> [a \in Addr |-> IF a \in has THEN Some(SrcInfo) ELSE None],
     storage |-> [a \in Addr |-> [k \in Key |-> v]],
     code_by_hash |-> [h \in Hash |-> IF honest /\ h > KECCAK_EMPTY THEN h - 1 ELSE 0],
     block_hash |-> [n \in BlockNum |-> KECCAK_EMPTY + n]]

\* EmptyDB
EmptyDB == Source({}, U256_ZERO, FALSE)

-----------------------------------------------------------------------------
(* Results.  cache is the CacheDB after the call. *)

Ok(c, inf, val, calls) == [cache |-> c, ok |-> TRUE, info |-> inf, val |-> val, calls |-> calls]
Err(c, calls) == [cache |-> c, ok |-> FALSE, info |-> None, val |-> 0, calls |-> calls]

-----------------------------------------------------------------------------
(* impl CacheDB *)

\* a bug: the zero hash is not pre-seeded
new_without_zero_hash ==
    [accounts |-> EmptyMap,
     contracts |-> Put(EmptyMap, KECCAK_EMPTY, 0),
     block_hashes |-> EmptyMap]

\* CacheDB::new
new == [accounts |-> EmptyMap,
        contracts |-> Put(Put(EmptyMap, KECCAK_EMPTY, 0), ZERO_HASH, 0),
        block_hashes |-> EmptyMap]

\* a bug: the code replaces what the contracts map holds under its hash
insert_contract_overwrites(cons, account) ==
    LET has == account.code # None /\ Unwrap(account.code) # 0
        h1 == IF has THEN CodeHash(Unwrap(account.code)) ELSE account.code_hash
        cons1 == IF has THEN Put(cons, h1, Unwrap(account.code)) ELSE cons
        h2 == IF h1 = ZERO_HASH THEN KECCAK_EMPTY ELSE h1
    IN [contracts |-> cons1, info |-> [account EXCEPT !.code_hash = h2]]

\* CacheDB::insert_contract: the contracts map and the account info after it
insert_contract(cons, account) ==
    LET has == account.code # None /\ Unwrap(account.code) # 0
        h1 == IF has THEN CodeHash(Unwrap(account.code)) ELSE account.code_hash
        cons1 == IF has /\ h1 \notin DOMAIN cons
                 THEN Put(cons, h1, Unwrap(account.code))
                 ELSE cons
        h2 == IF h1 = ZERO_HASH THEN KECCAK_EMPTY ELSE h1
    IN [contracts |-> cons1, info |-> [account EXCEPT !.code_hash = h2]]

\* a bug: the record is replaced by one made from the info
insert_account_info_replaces(c, address, inf) ==
    LET ic == insert_contract(c.contracts, inf)
    IN Ok([c EXCEPT !.contracts = ic.contracts,
                    !.accounts = Put(c.accounts, address, FromOptionInfo(Some(ic.info)))],
          None, 0, <<>>)

\* CacheDB::insert_account_info
insert_account_info(c, address, inf) ==
    LET ic == insert_contract(c.contracts, inf)
        acc == [OrDefault(c.accounts, address) EXCEPT !.info = ic.info]
    IN Ok([c EXCEPT !.contracts = ic.contracts,
                    !.accounts = Put(c.accounts, address, acc)],
          None, 0, <<>>)

\* CacheDB::load_account
load_account(c, address, avail) ==
    IF address \in DOMAIN c.accounts
    THEN Ok(c, None, 0, <<>>)
    ELSE IF "basic" \notin avail
    THEN Err(c, <<"basic">>)
    ELSE Ok([c EXCEPT !.accounts = Put(@, address, FromSource(db.basic[address]))],
            None, 0, <<"basic">>)

\* a bug: the slot replaces the storage instead of joining it
insert_account_storage_alone(c, address, slot, value, avail) ==
    LET la == load_account(c, address, avail)
    IN IF ~la.ok THEN la
       ELSE Ok([la.cache EXCEPT !.accounts[address].storage = Put(EmptyMap, slot, value)],
               None, 0, la.calls)

\* CacheDB::insert_account_storage
insert_account_storage(c, address, slot, value, avail) ==
    LET la == load_account(c, address, avail)
    IN IF ~la.ok THEN la
       ELSE LET acc == la.cache.accounts[address]
            IN Ok([la.cache EXCEPT !.accounts[address] =
                       [acc EXCEPT !.storage = Put(acc.storage, slot, value)]],
                  None, 0, la.calls)

\* a bug: the storage is replaced but the marker is left as it was
replace_account_storage_keeps_state(c, address, st, avail) ==
    LET la == load_account(c, address, avail)
    IN IF ~la.ok THEN la
       ELSE Ok([la.cache EXCEPT !.accounts[address].storage = st], None, 0, la.calls)

\* CacheDB::replace_account_storage
replace_account_storage(c, address, st, avail) ==
    LET la == load_account(c, address, avail)
    IN IF ~la.ok THEN la
       ELSE LET acc == la.cache.accounts[address]
            IN Ok([la.cache EXCEPT !.accounts[address] =
                       [acc EXCEPT !.account_state = "StorageCleared", !.storage = st]],
                  None, 0, la.calls)

-----------------------------------------------------------------------------
(* impl DatabaseCommit for CacheDB *)

\* a bug: the destroyed account keeps its cached storage
commit_destroyed_keeps_storage(old) ==
    [old EXCEPT !.account_state = "NotExisting", !.info = DefaultInfo]

\* the record of a destroyed account: storage cleared, NotExisting, default info
commit_destroyed(old) ==
    [old EXCEPT !.storage = EmptyMap,
                !.account_state = "NotExisting",
                !.info = DefaultInfo]

\* StorageSlot::present_value
present_value(slot) == slot.present_value

\* a bug: a delta that does not clear storage downgrades StorageCleared
commit_state_not_sticky(account, old_state) ==
    IF account.storage_cleared THEN "StorageCleared" ELSE "Touched"

\* a bug: the test of the old state is inverted
commit_state_inverted(account, old_state) ==
    IF account.storage_cleared THEN "StorageCleared"
    ELSE IF ~is_storage_cleared(old_state) THEN "StorageCleared"
    ELSE "Touched"

\* a bug: a NotExisting record stays NotExisting under a delta that does
\* not clear storage
commit_state_keeps_not_existing(account, old_state) ==
    IF account.storage_cleared THEN "StorageCleared"
    ELSE IF is_storage_cleared(old_state) THEN "StorageCleared"
    ELSE IF old_state = "NotExisting" THEN "NotExisting"
    ELSE "Touched"

\* the account state a non-destroyed delta leaves
commit_state(account, old_state) ==
    IF account.storage_cleared THEN "StorageCleared"
    ELSE IF is_storage_cleared(old_state) THEN "StorageCleared"
    ELSE "Touched"

\* a bug: the value a slot had before the transaction is merged
commit_storage_original(account, old_storage) ==
    Extend(IF account.storage_cleared THEN EmptyMap ELSE old_storage,
           [key \in DOMAIN account.storage |-> account.storage[key].original_value])

\* the storage a non-destroyed delta leaves: cleared if the delta says so, then
\* extended with the present value of every slot of the delta
commit_storage(account, old_storage) ==
    Extend(IF account.storage_cleared THEN EmptyMap ELSE old_storage,
           [key \in DOMAIN account.storage |-> present_value(account.storage[key])])

\* a bug: a destroyed delta drops the record of every other address
commit_one_destroys_all(c, address, account) ==
    IF account.is_destroyed
    THEN [c EXCEPT !.accounts =
              Put(EmptyMap, address, commit_destroyed(OrDefault(c.accounts, address)))]
    ELSE LET ic == insert_contract(c.contracts, account.info)
             old == OrDefault(c.accounts, address)
         IN [c EXCEPT !.contracts = ic.contracts,
                      !.accounts =
                          Put(@, address,
                              [info |-> ic.info,
                               account_state |-> commit_state(account, old.account_state),
                               storage |-> commit_storage(account, old.storage)])]

\* one iteration of the loop of commit: the delta account applied to address
commit_one(c, address, account) ==
    IF account.is_destroyed
    THEN [c EXCEPT !.accounts =
              Put(@, address, commit_destroyed(OrDefault(c.accounts, address)))]
    ELSE LET ic == insert_contract(c.contracts, account.info)
             old == OrDefault(c.accounts, address)
         IN [c EXCEPT !.contracts = ic.contracts,
                      !.accounts =
                          Put(@, address,
                              [info |-> ic.info,
                               account_state |-> commit_state(account, old.account_state),
                               storage |-> commit_storage(account, old.storage)])]

\* DatabaseCommit::commit: changes is a HashMap<B160, Account>, iterated in
\* the order the map yields its entries, here the sequence order of its keys
RECURSIVE commit_loop(_, _, _)
commit_loop(c, changes, order) ==
    IF order = <<>> THEN c
    ELSE commit_loop(commit_one(c, Head(order), changes[Head(order)]), changes, Tail(order))

commit(c, changes, order) == Ok(commit_loop(c, changes, order), None, 0, <<>>)

-----------------------------------------------------------------------------
(* impl Database for CacheDB: the mutable, load-through path *)

block_hash(c, number, avail) ==
    IF number \in DOMAIN c.block_hashes
    THEN Ok(c, None, c.block_hashes[number], <<>>)
    ELSE IF "block_hash" \notin avail
    THEN Err(c, <<"block_hash">>)
    ELSE Ok([c EXCEPT !.block_hashes = Put(@, number, db.block_hash[number])],
            None, db.block_hash[number], <<"block_hash">>)

basic(c, address, avail) ==
    IF address \in DOMAIN c.accounts
    THEN Ok(c, DbAccount_info(c.accounts[address]), 0, <<>>)
    ELSE IF "basic" \notin avail
    THEN Err(c, <<"basic">>)
    ELSE LET acc == FromSource(db.basic[address])
         IN Ok([c EXCEPT !.accounts = Put(@, address, acc)],
               DbAccount_info(acc), 0, <<"basic">>)

\* a bug: the slot is read from the source although it has no account info
storage_reads_slot_without_info(c, address, index, avail) ==
    IF address \in DOMAIN c.accounts
    THEN LET acc_entry == c.accounts[address]
         IN IF index \in DOMAIN acc_entry.storage
            THEN Ok(c, None, acc_entry.storage[index], <<>>)
            ELSE IF KnowsStorage(acc_entry)
            THEN Ok(c, None, U256_ZERO, <<>>)
            ELSE IF "storage" \notin avail
            THEN Err(c, <<"storage">>)
            ELSE LET slot == db.storage[address][index]
                 IN Ok([c EXCEPT !.accounts[address].storage = Put(@, index, slot)],
                       None, slot, <<"storage">>)
    ELSE IF "basic" \notin avail
    THEN Err(c, <<"basic">>)
    ELSE IF "storage" \notin avail
    THEN Err(c, <<"basic", "storage">>)
    ELSE LET value == db.storage[address][index]
             account == FromOptionInfo(db.basic[address])
         IN Ok([c EXCEPT !.accounts =
                    Put(@, address, [account EXCEPT !.storage = Put(@, index, value)])],
               None, value, <<"basic", "storage">>)

\* a bug: the record is inserted before the source is asked for the slot
storage_keeps_partial_record(c, address, index, avail) ==
    IF address \in DOMAIN c.accounts
    THEN LET acc_entry == c.accounts[address]
         IN IF index \in DOMAIN acc_entry.storage
            THEN Ok(c, None, acc_entry.storage[index], <<>>)
            ELSE IF KnowsStorage(acc_entry)
            THEN Ok(c, None, U256_ZERO, <<>>)
            ELSE IF "storage" \notin avail
            THEN Err(c, <<"storage">>)
            ELSE LET slot == db.storage[address][index]
                 IN Ok([c EXCEPT !.accounts[address].storage = Put(@, index, slot)],
                       None, slot, <<"storage">>)
    ELSE IF "basic" \notin avail
    THEN Err(c, <<"basic">>)
    ELSE LET inf == db.basic[address]
         IN IF inf # None
            THEN IF "storage" \notin avail
                 THEN Err([c EXCEPT !.accounts = Put(@, address, FromOptionInfo(inf))],
                          <<"basic", "storage">>)
                 ELSE LET value == db.storage[address][index]
                          account == FromOptionInfo(inf)
                      IN Ok([c EXCEPT !.accounts =
                                 Put(@, address,
                                     [account EXCEPT !.storage = Put(@, index, value)])],
                            None, value, <<"basic", "storage">>)
            ELSE Ok([c EXCEPT !.accounts = Put(@, address, FromOptionInfo(inf))],
                    None, U256_ZERO, <<"basic">>)

storage(c, address, index, avail) ==
    IF address \in DOMAIN c.accounts
    THEN LET acc_entry == c.accounts[address]
         IN IF index \in DOMAIN acc_entry.storage
            THEN Ok(c, None, acc_entry.storage[index], <<>>)
            ELSE IF KnowsStorage(acc_entry)
            THEN Ok(c, None, U256_ZERO, <<>>)
            ELSE IF "storage" \notin avail
            THEN Err(c, <<"storage">>)
            ELSE LET slot == db.storage[address][index]
                 IN Ok([c EXCEPT !.accounts[address].storage = Put(@, index, slot)],
                       None, slot, <<"storage">>)
    ELSE IF "basic" \notin avail
    THEN Err(c, <<"basic">>)
    ELSE LET inf == db.basic[address]
         IN IF inf # None
            THEN IF "storage" \notin avail
                 THEN Err(c, <<"basic", "storage">>)
                 ELSE LET value == db.storage[address][index]
                          account == FromOptionInfo(inf)
                      IN Ok([c EXCEPT !.accounts =
                                 Put(@, address,
                                     [account EXCEPT !.storage = Put(@, index, value)])],
                            None, value, <<"basic", "storage">>)
            ELSE Ok([c EXCEPT !.accounts = Put(@, address, FromOptionInfo(inf))],
                    None, U256_ZERO, <<"basic">>)

code_by_hash(c, code_hash, avail) ==
    IF code_hash \in DOMAIN c.contracts
    THEN Ok(c, None, c.contracts[code_hash], <<>>)
    ELSE IF "code_by_hash" \notin avail
    THEN Err(c, <<"code_by_hash">>)
    ELSE Ok([c EXCEPT !.contracts = Put(@, code_hash, db.code_by_hash[code_hash])],
            None, db.code_by_hash[code_hash], <<"code_by_hash">>)

-----------------------------------------------------------------------------
(* impl DatabaseRef for CacheDB: the non-mutating path *)

\* a query forwarded to the source: its answer or its error
Forward(c, method, inf, val, avail) ==
    IF method \in avail THEN Ok(c, inf, val, <<method>>) ELSE Err(c, <<method>>)

\* a bug: the non-mutating read loads through like the mutable one
basic_ref_loads_through(c, address, avail) == basic(c, address, avail)

basic_ref(c, address, avail) ==
    IF address \in DOMAIN c.accounts
    THEN Ok(c, DbAccount_info(c.accounts[address]), 0, <<>>)
    ELSE Forward(c, "basic", db.basic[address], 0, avail)

\* a bug: the account state is not looked at before asking the source
storage_ref_ignores_state(c, address, index, avail) ==
    IF address \in DOMAIN c.accounts /\ index \in DOMAIN c.accounts[address].storage
    THEN Ok(c, None, c.accounts[address].storage[index], <<>>)
    ELSE Forward(c, "storage", None, db.storage[address][index], avail)

storage_ref(c, address, index, avail) ==
    IF address \in DOMAIN c.accounts
    THEN LET acc_entry == c.accounts[address]
         IN IF index \in DOMAIN acc_entry.storage
            THEN Ok(c, None, acc_entry.storage[index], <<>>)
            ELSE IF KnowsStorage(acc_entry)
            THEN Ok(c, None, U256_ZERO, <<>>)
            ELSE Forward(c, "storage", None, db.storage[address][index], avail)
    ELSE Forward(c, "storage", None, db.storage[address][index], avail)

code_by_hash_ref(c, code_hash, avail) ==
    IF code_hash \in DOMAIN c.contracts
    THEN Ok(c, None, c.contracts[code_hash], <<>>)
    ELSE Forward(c, "code_by_hash", None, db.code_by_hash[code_hash], avail)

block_hash_ref(c, number, avail) ==
    IF number \in DOMAIN c.block_hashes
    THEN Ok(c, None, c.block_hashes[number], <<>>)
    ELSE Forward(c, "block_hash", None, db.block_hash[number], avail)

-----------------------------------------------------------------------------
(* Inputs *)

\* the account infos callers pass: without code and with each code,
\* the code hash left for insert_contract to set
InfoInputs ==
    {[balance |-> 1, nonce |-> 1, code_hash |-> ZERO_HASH, code |-> None]}
    \cup {[balance |-> cd, nonce |-> 0, code_hash |-> ZERO_HASH, code |-> Some(cd)] :
              cd \in Code}

\* the HashMap<U256, U256> values over the keys K
StorageMaps(K) == UNION {[D -> Value] : D \in SUBSET K}

\* the StorageSlot values of a delta, the slots a transaction has written:
\* the value before the transaction and the present one, which differs
Slots ==
    {slot \in [original_value : Value, present_value : Value] :
        slot.original_value # slot.present_value}

\* the HashMap<U256, StorageSlot> values over the keys K
SlotMaps(K) == UNION {[D -> Slots] : D \in SUBSET K}

\* the account deltas of a commit batch
Deltas(K) ==
    [info : InfoInputs, is_destroyed : BOOLEAN, storage_cleared : BOOLEAN,
     storage : SlotMaps(K)]

\* the commit batches over the addresses A
Batches(A, K) == UNION {[D -> Deltas(K)] : D \in SUBSET A}

\* the orders in which a HashMap with the keys D may yield its entries
Orders(D) ==
    {o \in [1..Cardinality(D) -> D] : \A i, j \in 1..Cardinality(D) : o[i] = o[j] => i = j}

\* which of the source's methods answer during one call
Avail(methods) == SUBSET methods

-----------------------------------------------------------------------------
(* The state machine *)

Cache == [accounts |-> accounts, contracts |-> contracts, block_hashes |-> block_hashes]

NoChanges == [a \in {} |-> 0]

\* what the last call was and what it returned; val is the value written for
\* insert_account_storage, changes the batch of a commit or the storage given
\* to replace_account_storage
Observe(op, a, x, val, changes, r) ==
    [op |-> op, a |-> a, x |-> x, ok |-> r.ok, info |-> r.info, val |-> val,
     calls |-> r.calls, changes |-> changes]

Apply(op, a, x, val, changes, r) ==
    /\ accounts' = r.cache.accounts
    /\ contracts' = r.cache.contracts
    /\ block_hashes' = r.cache.block_hashes
    /\ last' = Observe(op, a, x, val, changes, r)
    /\ UNCHANGED <<db, interpreter, host, SPEC>>

Read(op, a, x, r) == Apply(op, a, x, r.val, NoChanges, r)

\* no call frame is running
NoFrame == "none"

InitWith(sources) ==
    /\ interpreter = NoFrame
    /\ host = NoFrame
    /\ SPEC = NoFrame
    /\ accounts = new.accounts
    /\ contracts = new.contracts
    /\ block_hashes = new.block_hashes
    /\ db \in sources
    /\ last = Observe("new", 0, 0, 0, NoChanges, Ok(new, None, 0, <<>>))

InsertAccountInfo(A) ==
    \E a \in A, inf \in InfoInputs :
        Apply("insert_account_info", a, 0, 0, NoChanges, insert_account_info(Cache, a, inf))

LoadAccount(A) ==
    \E a \in A, avail \in Avail({"basic"}) :
        Apply("load_account", a, 0, 0, NoChanges, load_account(Cache, a, avail))

InsertAccountStorage(A, K) ==
    \E a \in A, k \in K, v \in Value, avail \in Avail({"basic"}) :
        Apply("insert_account_storage", a, k, v, NoChanges,
              insert_account_storage(Cache, a, k, v, avail))

ReplaceAccountStorage(A, K) ==
    \E a \in A, st \in StorageMaps(K), avail \in Avail({"basic"}) :
        Apply("replace_account_storage", a, 0, 0, st,
              replace_account_storage(Cache, a, st, avail))

Commit(batches) ==
    \E changes \in batches : \E order \in Orders(DOMAIN changes) :
        Apply("commit", 0, 0, 0, changes, commit(Cache, changes, order))

BlockHash ==
    \E n \in BlockNum, avail \in Avail({"block_hash"}) :
        Read("block_hash", 0, n, block_hash(Cache, n, avail))

Basic(A) ==
    \E a \in A, avail \in Avail({"basic"}) :
        Read("basic", a, 0, basic(Cache, a, avail))

Storage(A, K) ==
    \E a \in A, k \in K, avail \in Avail({"basic", "storage"}) :
        Read("storage", a, k, storage(Cache, a, k, avail))

CodeByHash ==
    \E h \in Hash, avail \in Avail({"code_by_hash"}) :
        Read("code_by_hash", 0, h, code_by_hash(Cache, h, avail))

BlockHashRef ==
    \E n \in BlockNum, avail \in Avail({"block_hash"}) :
        Read("block_hash_ref", 0, n, block_hash_ref(Cache, n, avail))

BasicRef(A) ==
    \E a \in A, avail \in Avail({"basic"}) :
        Read("basic_ref", a, 0, basic_ref(Cache, a, avail))

StorageRef(A, K) ==
    \E a \in A, k \in K, avail \in Avail({"storage"}) :
        Read("storage_ref", a, k, storage_ref(Cache, a, k, avail))

CodeByHashRef ==
    \E h \in Hash, avail \in Avail({"code_by_hash"}) :
        Read("code_by_hash_ref", 0, h, code_by_hash_ref(Cache, h, avail))

\* the sources a behaviour may start over: EmptyDB, and the sources that hold
\* a non-zero value in every slot and have account info for some of the
\* addresses of A.  A source without info for an address may still hold its
\* slots: a CacheDB, itself a DatabaseRef, does after insert_account_storage
\* on an address its own source does not have.
Sources(A) == {Source(has, NonZero, TRUE) : has \in SUBSET A} \cup {EmptyDB}

OneAddr == {1}
OneKey == {1}

\* One account with NumKeys slots, every operation
Init == InitWith(Sources(OneAddr))

Next ==
    \/ InsertAccountInfo(OneAddr)
    \/ LoadAccount(OneAddr)
    \/ InsertAccountStorage(OneAddr, Key)
    \/ ReplaceAccountStorage(OneAddr, Key)
    \/ Commit(Batches(OneAddr, Key))
    \/ BlockHash
    \/ Basic(OneAddr)
    \/ Storage(OneAddr, Key)
    \/ CodeByHash
    \/ BlockHashRef
    \/ BasicRef(OneAddr)
    \/ StorageRef(OneAddr, Key)
    \/ CodeByHashRef

Spec == Init /\ [][Next]_vars

\* NumAddr accounts with one slot each: the operations on accounts, with the
\* batches of a commit drawn from WideBatches
WideDeltas ==
    {d \in Deltas(OneKey) :
        /\ d.is_destroyed => d.storage = EmptyMap /\ ~d.storage_cleared /\ d.info.code = None
        /\ d.storage # EmptyMap
             => d.storage[1] = [original_value |-> U256_ZERO, present_value |-> NonZero]}

WideBatches == UNION {[D -> WideDeltas] : D \in SUBSET Addr}

InitWide == InitWith({Source({1}, NonZero, TRUE)})

NextWide ==
    \/ InsertAccountInfo(Addr)
    \/ Commit(WideBatches)
    \/ Basic(Addr)

SpecWide == InitWide /\ [][NextWide]_vars

-----------------------------------------------------------------------------
(* The interpreter: revisions, gas schedule, call frame *)

\* SpecId, in the order of activation
SpecId ==
    [FRONTIER |-> 0,
     HOMESTEAD |-> 2,
     TANGERINE |-> 4,
     SPURIOUS_DRAGON |-> 5,
     BYZANTIUM |-> 6,
     CONSTANTINOPLE |-> 7,
     PETERSBURG |-> 8,
     ISTANBUL |-> 9,
     BERLIN |-> 11,
     LONDON |-> 12,
     SHANGHAI |-> 16,
     CANCUN |-> 17]

\* Spec::enabled
enabled(spec, min) == spec >= min

\* u64 and usize are taken 30 bits wide: every sum and product of the model
\* stays within the integers TLC computes with
U64_MAX == 2^30 - 1
USIZE_MAX == 2^30 - 1
STACK_LIMIT == 1024
BLOCK_HASH_HISTORY == 256
MAX_INITCODE_SIZE == 49152

\* the gas schedule (crate::gas)
Schedule ==
    [VERYLOW |-> 3,
     LOW |-> 5,
     BLOCKHASH |-> 20,
     CREATE |-> 32000,
     CALL_STIPEND |-> 2300,
     SELFDESTRUCT |-> 24000,
     COLD_ACCOUNT_ACCESS_COST |-> 2600,
     WARM_STORAGE_READ_COST |-> 100,
     COLD_SLOAD_COST |-> 2100,
     SSTORE_SET |-> 20000,
     SSTORE_RESET |-> 5000,
     REFUND_SSTORE_CLEARS |-> 15000,
     LOG |-> 375,
     LOGDATA |-> 8,
     LOGTOPIC |-> 375,
     KECCAK256WORD |-> 6,
     COPY |-> 3,
     INITCODE_WORD_COST |-> 2,
     CALLVALUE |-> 9000,
     NEWACCOUNT |-> 25000,
     MEMORY |-> 3]

Min(x, y) == IF x < y THEN x ELSE y
Max(x, y) == IF x < y THEN y ELSE x

\* u64 checked and saturating arithmetic
checked(x) == IF x > U64_MAX THEN None ELSE Some(x)
saturating_add(x, y) == Min(x + y, U64_MAX)
saturating_mul(x, y) == Min(x * y, USIZE_MAX)

\* the number of 32-byte words that cover len bytes
num_words(len) == (len + 31) \div 32

account_access_gas(spec, is_cold) ==
    IF enabled(spec, SpecId.BERLIN)
    THEN IF is_cold THEN Schedule.COLD_ACCOUNT_ACCESS_COST ELSE Schedule.WARM_STORAGE_READ_COST
    ELSE 700

extcodecopy_cost(spec, len, is_cold) ==
    LET base == IF enabled(spec, SpecId.BERLIN)
                THEN IF is_cold THEN Schedule.COLD_ACCOUNT_ACCESS_COST ELSE Schedule.WARM_STORAGE_READ_COST
                ELSE IF enabled(spec, SpecId.TANGERINE) THEN 700 ELSE 20
    IN checked(base + Schedule.COPY * num_words(len))

verylowcopy_cost(len) == checked(Schedule.VERYLOW + Schedule.COPY * num_words(len))

sload_cost(spec, is_cold) ==
    IF enabled(spec, SpecId.BERLIN)
    THEN IF is_cold THEN Schedule.COLD_SLOAD_COST ELSE Schedule.WARM_STORAGE_READ_COST
    ELSE IF enabled(spec, SpecId.ISTANBUL) THEN 800
    ELSE IF enabled(spec, SpecId.TANGERINE) THEN 200
    ELSE 50

frontier_sstore_cost(current, new_value) ==
    IF current = 0 /\ new_value # 0 THEN Schedule.SSTORE_SET ELSE Schedule.SSTORE_RESET

istanbul_sstore_cost(sload_gas, sstore_reset_gas, original, current, new_value) ==
    IF new_value = current THEN sload_gas
    ELSE IF original = current /\ original = 0 THEN Schedule.SSTORE_SET
    ELSE IF original = current THEN sstore_reset_gas
    ELSE sload_gas

\* the cost of the write by the schedule of the revision
sstore_schedule_cost(spec, original, current, new_value, gas, is_cold) ==
    IF enabled(spec, SpecId.BERLIN)
    THEN Some(istanbul_sstore_cost(Schedule.WARM_STORAGE_READ_COST, Schedule.SSTORE_RESET - Schedule.COLD_SLOAD_COST,
                                   original, current, new_value)
              + IF is_cold THEN Schedule.COLD_SLOAD_COST ELSE 0)
    ELSE IF enabled(spec, SpecId.ISTANBUL)
    THEN Some(istanbul_sstore_cost(800, Schedule.SSTORE_RESET, original, current, new_value))
    ELSE Some(frontier_sstore_cost(current, new_value))

\* None when the gas left does not exceed the call stipend (EIP-1706)
sstore_cost(spec, original, current, new_value, gas, is_cold) ==
    IF enabled(spec, SpecId.ISTANBUL) /\ gas <= Schedule.CALL_STIPEND
    THEN None
    ELSE sstore_schedule_cost(spec, original, current, new_value, gas, is_cold)

sstore_refund(spec, original, current, new_value) ==
    IF enabled(spec, SpecId.ISTANBUL)
    THEN LET clears == IF enabled(spec, SpecId.LONDON)
                       THEN Schedule.SSTORE_RESET - Schedule.COLD_SLOAD_COST + 1900
                       ELSE Schedule.REFUND_SSTORE_CLEARS
             reset == IF enabled(spec, SpecId.BERLIN) THEN Schedule.SSTORE_RESET - Schedule.COLD_SLOAD_COST
                      ELSE Schedule.SSTORE_RESET
             sload == IF enabled(spec, SpecId.BERLIN) THEN Schedule.WARM_STORAGE_READ_COST ELSE 800
         IN IF current = new_value THEN 0
            ELSE IF original = current /\ new_value = 0 THEN clears
            ELSE (IF original # 0
                  THEN IF current = 0 THEN 0 - clears
                       ELSE IF new_value = 0 THEN clears ELSE 0
                  ELSE 0)
                 + (IF original = new_value
                    THEN IF original = 0 THEN Schedule.SSTORE_SET - sload ELSE reset - sload
                    ELSE 0)
    ELSE IF current # 0 /\ new_value = 0 THEN Schedule.REFUND_SSTORE_CLEARS ELSE 0

log_cost(n, len) == checked(Schedule.LOG + Schedule.LOGDATA * len + Schedule.LOGTOPIC * n)

selfdestruct_cost(spec, res) ==
    LET should_charge_topup ==
            IF enabled(spec, SpecId.SPURIOUS_DRAGON)
            THEN res.had_value /\ ~res.target_exists
            ELSE ~res.target_exists
        topup == IF enabled(spec, SpecId.TANGERINE) /\ should_charge_topup THEN Schedule.NEWACCOUNT ELSE 0
        selfdestruct_gas == IF enabled(spec, SpecId.TANGERINE) THEN 5000 ELSE 0
    IN selfdestruct_gas + topup
       + IF enabled(spec, SpecId.BERLIN) /\ res.is_cold THEN Schedule.COLD_ACCOUNT_ACCESS_COST ELSE 0

initcode_cost(len) == Schedule.INITCODE_WORD_COST * num_words(len)

create2_cost(len) == checked(Schedule.CREATE + Schedule.KECCAK256WORD * num_words(len))

call_cost(spec, transfers_value, is_new, is_cold, is_call_or_callcode, is_call_or_staticcall) ==
    (IF enabled(spec, SpecId.BERLIN)
     THEN IF is_cold THEN Schedule.COLD_ACCOUNT_ACCESS_COST ELSE Schedule.WARM_STORAGE_READ_COST
     ELSE IF enabled(spec, SpecId.TANGERINE) THEN 700 ELSE 40)
    + (IF is_call_or_callcode /\ transfers_value THEN Schedule.CALLVALUE ELSE 0)
    + (IF is_call_or_staticcall
       THEN IF enabled(spec, SpecId.SPURIOUS_DRAGON)
            THEN IF transfers_value /\ is_new THEN Schedule.NEWACCOUNT ELSE 0
            ELSE IF is_new THEN Schedule.NEWACCOUNT ELSE 0
       ELSE 0)

memory_gas(words) == Schedule.MEMORY * words + (words * words) \div 512

-----------------------------------------------------------------------------
(* The call frame and the steps every handler is built from *)

\* Interpreter: the head of stack is the top; shared_memory is the frame's
\* linear memory, one byte per element
Interpreter(stack, gas_limit, is_static, contract) ==
    [stack |-> stack,
     gas |-> [remaining |-> gas_limit, memory |-> 0, refunded |-> 0],
     shared_memory |-> <<>>,
     is_static |-> is_static,
     contract |-> contract,
     instruction_result |-> "Continue",
     next_action |-> [kind |-> "None"]]

Continues(i) == i.instruction_result = "Continue"
Halt(i, result) == [i EXCEPT !.instruction_result = result]

\* check!: the opcode is enabled from the revision min on
check(i, spec, min) == IF enabled(spec, min) THEN i ELSE Halt(i, "NotActivated")

\* check_staticcall!
check_staticcall(i) == IF i.is_static THEN Halt(i, "StateChangeDuringStaticCall") ELSE i

\* gas!: Gas::record_cost, or out of gas with nothing charged
gas_charge(i, cost) ==
    IF i.gas.remaining < cost THEN Halt(i, "OutOfGas")
    ELSE [i EXCEPT !.gas.remaining = @ - cost]

\* gas_or_fail!
gas_or_fail(i, cost) ==
    IF cost = None THEN Halt(i, "OutOfGas") ELSE gas_charge(i, Unwrap(cost))

\* refund!: Gas::record_refund
refund(i, amount) == [i EXCEPT !.gas.refunded = @ + amount]

\* pop!, pop_address!, pop_top!: n words must be on the stack
pop(i, n) ==
    IF Len(i.stack) < n THEN Halt(i, "StackUnderflow")
    ELSE [i EXCEPT !.stack = SubSeq(@, n + 1, Len(@))]

push(i, x) ==
    IF Len(i.stack) >= STACK_LIMIT THEN Halt(i, "StackOverflow")
    ELSE [i EXCEPT !.stack = <<x>> \o @]

\* pop_top!: the top word is replaced in place
set_top(i, x) == [i EXCEPT !.stack[1] = x]

\* as_usize_or_fail!: does the word fit a usize
fits_usize(x) == x <= USIZE_MAX
as_usize_saturated(x) == Min(x, USIZE_MAX)

\* shared_memory_resize!: memory covers [offset, offset + len), grown by
\* whole words of zero bytes against the memory expansion cost
shared_memory_resize(i, offset, len) ==
    LET size == Min(offset + len, USIZE_MAX)
        words == num_words(size)
        cost == memory_gas(words)
    IN IF size <= Len(i.shared_memory) THEN i
       ELSE IF cost > i.gas.memory /\ i.gas.remaining < cost - i.gas.memory
       THEN Halt(i, "MemoryOOG")
       ELSE [i EXCEPT !.gas.remaining = @ - Max(cost - i.gas.memory, 0),
                      !.gas.memory = Max(cost, @),
                      !.shared_memory =
                          @ \o [k \in 1..(32 * words - Len(@)) |-> 0]]

\* SharedMemory::slice
slice(mem, offset, len) == SubSeq(mem, offset + 1, offset + len)

\* SharedMemory::set_data: len bytes at memory_offset are data from
\* data_offset on, zero where data ends
set_data(mem, memory_offset, data_offset, len, data) ==
    [k \in 1..Len(mem) |->
        IF k <= memory_offset \/ k > memory_offset + len THEN mem[k]
        ELSE IF data_offset + (k - memory_offset) <= Len(data)
        THEN data[data_offset + (k - memory_offset)]
        ELSE 0]

\* SharedMemory::copy: len bytes move from src to dst within the memory
copy(mem, dst, src, len) ==
    [k \in 1..Len(mem) |->
        IF k <= dst \/ k > dst + len THEN mem[k] ELSE mem[src + (k - dst)]]

\* what a handler returns: the frame, the Host and the methods of the Host
\* invoked on the state behind it (env, which reads the environment, is not
\* listed)
Ret(i, h, calls) == [interpreter |-> i, host |-> h, calls |-> calls]

-----------------------------------------------------------------------------
(* instructions/host.rs.  ans is what the Host answers to the one call the *)
(* handler makes that may fail: ok = FALSE is the fatal external error.    *)

balance(i, h, spec, ans) ==
    LET i1 == pop(i, 1)
        calls == <<"balance">>
        cost == IF enabled(spec, SpecId.ISTANBUL) THEN account_access_gas(spec, ans.is_cold)
                ELSE IF enabled(spec, SpecId.TANGERINE) THEN 400
                ELSE 20
        i2 == gas_charge(i1, cost)
    IN IF ~Continues(i1) THEN Ret(i1, h, <<>>)
       ELSE IF ~ans.ok THEN Ret(Halt(i1, "FatalExternalError"), h, calls)
       ELSE IF ~Continues(i2) THEN Ret(i2, h, calls)
       ELSE Ret(push(i2, ans.value), h, calls)

selfbalance(i, h, spec, ans) ==
    LET i1 == check(i, spec, SpecId.ISTANBUL)
        i2 == gas_charge(i1, Schedule.LOW)
        calls == <<"balance">>
    IN IF ~Continues(i1) THEN Ret(i1, h, <<>>)
       ELSE IF ~Continues(i2) THEN Ret(i2, h, <<>>)
       ELSE IF ~ans.ok THEN Ret(Halt(i2, "FatalExternalError"), h, calls)
       ELSE Ret(push(i2, ans.value), h, calls)

extcodesize(i, h, spec, ans) ==
    LET i1 == pop(i, 1)
        calls == <<"code">>
        cost == IF enabled(spec, SpecId.BERLIN)
                THEN IF ans.is_cold THEN Schedule.COLD_ACCOUNT_ACCESS_COST ELSE Schedule.WARM_STORAGE_READ_COST
                ELSE IF enabled(spec, SpecId.TANGERINE) THEN 700
                ELSE 20
        i2 == gas_charge(i1, cost)
    IN IF ~Continues(i1) THEN Ret(i1, h, <<>>)
       ELSE IF ~ans.ok THEN Ret(Halt(i1, "FatalExternalError"), h, calls)
       ELSE IF ~Continues(i2) THEN Ret(i2, h, calls)
       ELSE Ret(push(i2, Len(ans.code)), h, calls)

extcodehash(i, h, spec, ans) ==
    LET i0 == check(i, spec, SpecId.CONSTANTINOPLE)
        i1 == pop(i0, 1)
        calls == <<"code_hash">>
        cost == IF enabled(spec, SpecId.BERLIN)
                THEN IF ans.is_cold THEN Schedule.COLD_ACCOUNT_ACCESS_COST ELSE Schedule.WARM_STORAGE_READ_COST
                ELSE IF enabled(spec, SpecId.ISTANBUL) THEN 700
                ELSE 400
        i2 == gas_charge(i1, cost)
    IN IF ~Continues(i0) THEN Ret(i0, h, <<>>)
       ELSE IF ~Continues(i1) THEN Ret(i1, h, <<>>)
       ELSE IF ~ans.ok THEN Ret(Halt(i1, "FatalExternalError"), h, calls)
       ELSE IF ~Continues(i2) THEN Ret(i2, h, calls)
       ELSE Ret(push(i2, ans.value), h, calls)

\* a bug: the memory offset is converted before the length is found zero
extcodecopy_offset_first(i, h, spec, ans) ==
    LET i1 == pop(i, 1)
        i2 == pop(i1, 3)
        memory_offset == i1.stack[1]
        code_offset == i1.stack[2]
        len == i1.stack[3]
        calls == <<"code">>
        i3 == gas_or_fail(i2, extcodecopy_cost(spec, len, ans.is_cold))
        i4 == shared_memory_resize(i3, memory_offset, len)
    IN IF ~Continues(i1) THEN Ret(i1, h, <<>>)
       ELSE IF ~Continues(i2) THEN Ret(i2, h, <<>>)
       ELSE IF ~ans.ok THEN Ret(Halt(i2, "FatalExternalError"), h, calls)
       ELSE IF ~fits_usize(len) THEN Ret(Halt(i2, "InvalidOperandOOG"), h, calls)
       ELSE IF ~Continues(i3) THEN Ret(i3, h, calls)
       ELSE IF ~fits_usize(memory_offset) THEN Ret(Halt(i3, "InvalidOperandOOG"), h, calls)
       ELSE IF len = 0 THEN Ret(i3, h, calls)
       ELSE IF ~Continues(i4) THEN Ret(i4, h, calls)
       ELSE Ret([i4 EXCEPT !.shared_memory =
                    set_data(@, memory_offset,
                             Min(as_usize_saturated(code_offset), Len(ans.code)),
                             len, ans.code)],
                h, calls)

extcodecopy(i, h, spec, ans) ==
    LET i1 == pop(i, 1)
        i2 == pop(i1, 3)
        memory_offset == i1.stack[1]
        code_offset == i1.stack[2]
        len == i1.stack[3]
        calls == <<"code">>
        i3 == gas_or_fail(i2, extcodecopy_cost(spec, len, ans.is_cold))
        i4 == shared_memory_resize(i3, memory_offset, len)
    IN IF ~Continues(i1) THEN Ret(i1, h, <<>>)
       ELSE IF ~Continues(i2) THEN Ret(i2, h, <<>>)
       ELSE IF ~ans.ok THEN Ret(Halt(i2, "FatalExternalError"), h, calls)
       ELSE IF ~fits_usize(len) THEN Ret(Halt(i2, "InvalidOperandOOG"), h, calls)
       ELSE IF ~Continues(i3) THEN Ret(i3, h, calls)
       ELSE IF len = 0 THEN Ret(i3, h, calls)
       ELSE IF ~fits_usize(memory_offset) THEN Ret(Halt(i3, "InvalidOperandOOG"), h, calls)
       ELSE IF ~Continues(i4) THEN Ret(i4, h, calls)
       ELSE Ret([i4 EXCEPT !.shared_memory =
                    set_data(@, memory_offset,
                             Min(as_usize_saturated(code_offset), Len(ans.code)),
                             len, ans.code)],
                h, calls)

\* a bug: the current block counts as part of the history window
blockhash_current_in_window(i, h, spec, ans) ==
    LET i1 == gas_charge(i, Schedule.BLOCKHASH)
        i2 == pop(i1, 1)
        number == i1.stack[1]
        diff == as_usize_saturated(h.env.block.number - number)
    IN IF ~Continues(i1) THEN Ret(i1, h, <<>>)
       ELSE IF ~Continues(i2) THEN Ret(i2, h, <<>>)
       ELSE IF h.env.block.number >= number /\ diff <= BLOCK_HASH_HISTORY
       THEN IF ~ans.ok THEN Ret(Halt(i1, "FatalExternalError"), h, <<"block_hash">>)
            ELSE Ret(set_top(i1, ans.value), h, <<"block_hash">>)
       ELSE Ret(set_top(i1, 0), h, <<>>)

blockhash(i, h, spec, ans) ==
    LET i1 == gas_charge(i, Schedule.BLOCKHASH)
        i2 == pop(i1, 1)
        number == i1.stack[1]
        diff == as_usize_saturated(h.env.block.number - number)
    IN IF ~Continues(i1) THEN Ret(i1, h, <<>>)
       ELSE IF ~Continues(i2) THEN Ret(i2, h, <<>>)
       ELSE IF h.env.block.number >= number /\ diff <= BLOCK_HASH_HISTORY /\ diff # 0
       THEN IF ~ans.ok THEN Ret(Halt(i1, "FatalExternalError"), h, <<"block_hash">>)
            ELSE Ret(set_top(i1, ans.value), h, <<"block_hash">>)
       ELSE Ret(set_top(i1, 0), h, <<>>)

\* a bug: a fatal error of the Host is taken for a zero word
sload_fatal_as_zero(i, h, spec, ans) ==
    LET i1 == pop(i, 1)
        i2 == gas_charge(i1, sload_cost(spec, ans.is_cold))
    IN IF ~Continues(i1) THEN Ret(i1, h, <<>>)
       ELSE IF ~Continues(i2) THEN Ret(i2, h, <<"sload">>)
       ELSE Ret(push(i2, IF ans.ok THEN h.storage[i.stack[1]] ELSE 0), h, <<"sload">>)

sload(i, h, spec, ans) ==
    LET i1 == pop(i, 1)
        index == i.stack[1]
        calls == <<"sload">>
        i2 == gas_charge(i1, sload_cost(spec, ans.is_cold))
    IN IF ~Continues(i1) THEN Ret(i1, h, <<>>)
       ELSE IF ~ans.ok THEN Ret(Halt(i1, "FatalExternalError"), h, calls)
       ELSE IF ~Continues(i2) THEN Ret(i2, h, calls)
       ELSE Ret(push(i2, h.storage[index]), h, calls)

\* Host::sstore stores value and answers (original, old, new, is_cold)
sstore(i, h, spec, ans) ==
    LET i0 == check_staticcall(i)
        i1 == pop(i0, 2)
        index == i0.stack[1]
        value == i0.stack[2]
        calls == <<"sstore">>
        old == h.storage[index]
        h1 == [h EXCEPT !.storage[index] = value]
        cost == sstore_cost(spec, ans.original, old, value, i1.gas.remaining, ans.is_cold)
        i2 == gas_or_fail(i1, cost)
    IN IF ~Continues(i0) THEN Ret(i0, h, <<>>)
       ELSE IF ~Continues(i1) THEN Ret(i1, h, <<>>)
       ELSE IF ~ans.ok THEN Ret(Halt(i1, "FatalExternalError"), h, calls)
       ELSE IF ~Continues(i2) THEN Ret(i2, h1, calls)
       ELSE Ret(refund(i2, sstore_refund(spec, ans.original, old, value)), h1, calls)

\* a bug: the static-call guard is missing
tstore_unguarded(i, h, spec, ans) ==
    LET i0 == check(i, spec, SpecId.CANCUN)
        i2 == gas_charge(i0, Schedule.WARM_STORAGE_READ_COST)
        i3 == pop(i2, 2)
    IN IF ~Continues(i0) THEN Ret(i0, h, <<>>)
       ELSE IF ~Continues(i2) THEN Ret(i2, h, <<>>)
       ELSE IF ~Continues(i3) THEN Ret(i3, h, <<>>)
       ELSE Ret(i3, [h EXCEPT !.transient[i2.stack[1]] = i2.stack[2]], <<"tstore">>)

tstore(i, h, spec, ans) ==
    LET i0 == check(i, spec, SpecId.CANCUN)
        i1 == check_staticcall(i0)
        i2 == gas_charge(i1, Schedule.WARM_STORAGE_READ_COST)
        i3 == pop(i2, 2)
        index == i2.stack[1]
        value == i2.stack[2]
    IN IF ~Continues(i0) THEN Ret(i0, h, <<>>)
       ELSE IF ~Continues(i1) THEN Ret(i1, h, <<>>)
       ELSE IF ~Continues(i2) THEN Ret(i2, h, <<>>)
       ELSE IF ~Continues(i3) THEN Ret(i3, h, <<>>)
       ELSE Ret(i3, [h EXCEPT !.transient[index] = value], <<"tstore">>)

tload(i, h, spec, ans) ==
    LET i0 == check(i, spec, SpecId.CANCUN)
        i1 == gas_charge(i0, Schedule.WARM_STORAGE_READ_COST)
        i2 == pop(i1, 1)
    IN IF ~Continues(i0) THEN Ret(i0, h, <<>>)
       ELSE IF ~Continues(i1) THEN Ret(i1, h, <<>>)
       ELSE IF ~Continues(i2) THEN Ret(i2, h, <<>>)
       ELSE Ret(set_top(i1, h.transient[i1.stack[1]]), h, <<"tload">>)

\* a bug: the topics are popped without a look at the depth of the stack
log_unchecked_depth(N, i, h, spec, ans) ==
    LET i0 == check_staticcall(i)
        i1 == pop(i0, 2)
        offset == i0.stack[1]
        len == i0.stack[2]
        i2 == gas_or_fail(i1, log_cost(N, len))
        i3 == IF len = 0 THEN i2 ELSE shared_memory_resize(i2, offset, len)
        data == IF len = 0 THEN <<>> ELSE slice(i3.shared_memory, offset, len)
        topics == SubSeq(i3.stack, 1, Min(N, Len(i3.stack)))
        entry == [address |-> i.contract.address, topics |-> topics, data |-> data]
    IN IF ~Continues(i0) THEN Ret(i0, h, <<>>)
       ELSE IF ~Continues(i1) THEN Ret(i1, h, <<>>)
       ELSE IF ~fits_usize(len) THEN Ret(Halt(i1, "InvalidOperandOOG"), h, <<>>)
       ELSE IF ~Continues(i2) THEN Ret(i2, h, <<>>)
       ELSE IF len # 0 /\ ~fits_usize(offset) THEN Ret(Halt(i2, "InvalidOperandOOG"), h, <<>>)
       ELSE IF ~Continues(i3) THEN Ret(i3, h, <<>>)
       ELSE Ret([i3 EXCEPT !.stack = SubSeq(@, Min(N, Len(@)) + 1, Len(@))],
                [h EXCEPT !.logs = Append(@, entry)], <<"log">>)

log(N, i, h, spec, ans) ==
    LET i0 == check_staticcall(i)
        i1 == pop(i0, 2)
        offset == i0.stack[1]
        len == i0.stack[2]
        i2 == gas_or_fail(i1, log_cost(N, len))
        i3 == IF len = 0 THEN i2 ELSE shared_memory_resize(i2, offset, len)
        data == IF len = 0 THEN <<>> ELSE slice(i3.shared_memory, offset, len)
        topics == SubSeq(i3.stack, 1, N)
        entry == [address |-> i.contract.address, topics |-> topics, data |-> data]
    IN IF ~Continues(i0) THEN Ret(i0, h, <<>>)
       ELSE IF ~Continues(i1) THEN Ret(i1, h, <<>>)
       ELSE IF ~fits_usize(len) THEN Ret(Halt(i1, "InvalidOperandOOG"), h, <<>>)
       ELSE IF ~Continues(i2) THEN Ret(i2, h, <<>>)
       ELSE IF len # 0 /\ ~fits_usize(offset) THEN Ret(Halt(i2, "InvalidOperandOOG"), h, <<>>)
       ELSE IF ~Continues(i3) THEN Ret(i3, h, <<>>)
       ELSE IF Len(i3.stack) < N THEN Ret(Halt(i3, "StackUnderflow"), h, <<>>)
       ELSE Ret([i3 EXCEPT !.stack = SubSeq(@, N + 1, Len(@))],
                [h EXCEPT !.logs = Append(@, entry)], <<"log">>)

\* a bug: the refund of EIP-3529 is still recorded from SpecId.LONDON on
selfdestruct_refund_kept(i, h, spec, ans) ==
    LET i0 == check_staticcall(i)
        i1 == pop(i0, 1)
        target == i0.stack[1]
        calls == <<"selfdestruct">>
        h1 == [h EXCEPT !.selfdestructs = Append(@, <<i.contract.address, target>>)]
        i2 == IF ~ans.previously_destroyed
              THEN refund(i1, Schedule.SELFDESTRUCT) ELSE i1
        i3 == gas_charge(i2, selfdestruct_cost(spec, ans))
    IN IF ~Continues(i0) THEN Ret(i0, h, <<>>)
       ELSE IF ~Continues(i1) THEN Ret(i1, h, <<>>)
       ELSE IF ~ans.ok THEN Ret(Halt(i1, "FatalExternalError"), h, calls)
       ELSE IF ~Continues(i3) THEN Ret(i3, h1, calls)
       ELSE Ret(Halt(i3, "SelfDestruct"), h1, calls)

selfdestruct(i, h, spec, ans) ==
    LET i0 == check_staticcall(i)
        i1 == pop(i0, 1)
        target == i0.stack[1]
        calls == <<"selfdestruct">>
        h1 == [h EXCEPT !.selfdestructs = Append(@, <<i.contract.address, target>>)]
        i2 == IF ~enabled(spec, SpecId.LONDON) /\ ~ans.previously_destroyed
              THEN refund(i1, Schedule.SELFDESTRUCT) ELSE i1
        i3 == gas_charge(i2, selfdestruct_cost(spec, ans))
    IN IF ~Continues(i0) THEN Ret(i0, h, <<>>)
       ELSE IF ~Continues(i1) THEN Ret(i1, h, <<>>)
       ELSE IF ~ans.ok THEN Ret(Halt(i1, "FatalExternalError"), h, calls)
       ELSE IF ~Continues(i3) THEN Ret(i3, h1, calls)
       ELSE Ret(Halt(i3, "SelfDestruct"), h1, calls)

\* a bug: the nested create is given all the gas left at every revision
create_gas_limit_all(spec, remaining) == remaining

\* EIP-150: the part of the gas left that a nested create is given
create_gas_limit(spec, remaining) ==
    IF enabled(spec, SpecId.TANGERINE) THEN remaining - remaining \div 64 ELSE remaining

\* EIP-1014: CREATE2 is enabled from SpecId.PETERSBURG on
create_gate(IS_CREATE2, i, spec) == IF IS_CREATE2 THEN check(i, spec, SpecId.PETERSBURG) ELSE i

\* a bug: the init code is metered before its length is held against the limit
create_meters_first(IS_CREATE2, i, h, spec, ans) ==
    LET i0 == check_staticcall(i)
        i1 == create_gate(IS_CREATE2, i0, spec)
        i2 == pop(i1, 3)
        value == i1.stack[1]
        code_offset == i1.stack[2]
        len == i1.stack[3]
        metered == len # 0 /\ enabled(spec, SpecId.SHANGHAI)
        limit == h.env.cfg.limit_contract_code_size
        max_initcode_size == IF limit # None THEN saturating_mul(Unwrap(limit), 2)
                             ELSE MAX_INITCODE_SIZE
        calls == <<>>
        i3 == IF metered THEN gas_charge(i2, initcode_cost(len)) ELSE i2
        i4 == IF len # 0 THEN shared_memory_resize(i3, code_offset, len) ELSE i3
        code == IF len # 0 THEN slice(i4.shared_memory, code_offset, len) ELSE <<>>
        i5 == IF IS_CREATE2 THEN pop(i4, 1) ELSE i4
        i6 == IF IS_CREATE2 THEN gas_or_fail(i5, create2_cost(len))
              ELSE gas_charge(i5, Schedule.CREATE)
        scheme == IF IS_CREATE2 THEN [kind |-> "Create2", salt |-> i4.stack[1]]
                  ELSE [kind |-> "Create"]
        gas_limit == create_gas_limit(spec, i6.gas.remaining)
        i7 == gas_charge(i6, gas_limit)
        inputs == [caller |-> i.contract.address, scheme |-> scheme, value |-> value,
                   init_code |-> code, gas_limit |-> gas_limit]
    IN IF ~Continues(i0) THEN Ret(i0, h, <<>>)
       ELSE IF ~Continues(i1) THEN Ret(i1, h, <<>>)
       ELSE IF ~Continues(i2) THEN Ret(i2, h, <<>>)
       ELSE IF ~fits_usize(len) THEN Ret(Halt(i2, "InvalidOperandOOG"), h, <<>>)
       ELSE IF ~Continues(i3) THEN Ret(i3, h, calls)
       ELSE IF metered /\ len > max_initcode_size
       THEN Ret(Halt(i3, "CreateInitCodeSizeLimit"), h, calls)
       ELSE IF len # 0 /\ ~fits_usize(code_offset)
       THEN Ret(Halt(i3, "InvalidOperandOOG"), h, calls)
       ELSE IF ~Continues(i4) THEN Ret(i4, h, calls)
       ELSE IF ~Continues(i5) THEN Ret(i5, h, calls)
       ELSE IF ~Continues(i6) THEN Ret(i6, h, calls)
       ELSE IF ~Continues(i7) THEN Ret(i7, h, calls)
       ELSE Ret([i7 EXCEPT !.next_action = [kind |-> "Create", inputs |-> inputs],
                           !.instruction_result = "CallOrCreate"],
                h, calls)

create(IS_CREATE2, i, h, spec, ans) ==
    LET i0 == check_staticcall(i)
        i1 == create_gate(IS_CREATE2, i0, spec)
        i2 == pop(i1, 3)
        value == i1.stack[1]
        code_offset == i1.stack[2]
        len == i1.stack[3]
        metered == len # 0 /\ enabled(spec, SpecId.SHANGHAI)
        limit == h.env.cfg.limit_contract_code_size
        max_initcode_size == IF limit # None THEN saturating_mul(Unwrap(limit), 2)
                             ELSE MAX_INITCODE_SIZE
        calls == <<>>
        i3 == IF metered THEN gas_charge(i2, initcode_cost(len)) ELSE i2
        i4 == IF len # 0 THEN shared_memory_resize(i3, code_offset, len) ELSE i3
        code == IF len # 0 THEN slice(i4.shared_memory, code_offset, len) ELSE <<>>
        i5 == IF IS_CREATE2 THEN pop(i4, 1) ELSE i4
        i6 == IF IS_CREATE2 THEN gas_or_fail(i5, create2_cost(len))
              ELSE gas_charge(i5, Schedule.CREATE)
        scheme == IF IS_CREATE2 THEN [kind |-> "Create2", salt |-> i4.stack[1]]
                  ELSE [kind |-> "Create"]
        gas_limit == create_gas_limit(spec, i6.gas.remaining)
        i7 == gas_charge(i6, gas_limit)
        inputs == [caller |-> i.contract.address, scheme |-> scheme, value |-> value,
                   init_code |-> code, gas_limit |-> gas_limit]
    IN IF ~Continues(i0) THEN Ret(i0, h, <<>>)
       ELSE IF ~Continues(i1) THEN Ret(i1, h, <<>>)
       ELSE IF ~Continues(i2) THEN Ret(i2, h, <<>>)
       ELSE IF ~fits_usize(len) THEN Ret(Halt(i2, "InvalidOperandOOG"), h, <<>>)
       ELSE IF metered /\ len > max_initcode_size
       THEN Ret(Halt(i2, "CreateInitCodeSizeLimit"), h, calls)
       ELSE IF ~Continues(i3) THEN Ret(i3, h, calls)
       ELSE IF len # 0 /\ ~fits_usize(code_offset)
       THEN Ret(Halt(i3, "InvalidOperandOOG"), h, calls)
       ELSE IF ~Continues(i4) THEN Ret(i4, h, calls)
       ELSE IF ~Continues(i5) THEN Ret(i5, h, calls)
       ELSE IF ~Continues(i6) THEN Ret(i6, h, calls)
       ELSE IF ~Continues(i7) THEN Ret(i7, h, calls)
       ELSE Ret([i7 EXCEPT !.next_action = [kind |-> "Create", inputs |-> inputs],
                           !.instruction_result = "CallOrCreate"],
                h, calls)

\* call_helpers::resize_memory_and_return_range
resize_memory_and_return_range(i, offset, len) ==
    LET i1 == shared_memory_resize(i, offset, len)
    IN IF ~fits_usize(len) THEN [i |-> Halt(i, "InvalidOperandOOG"), range |-> <<0, 0>>]
       ELSE IF len = 0 THEN [i |-> i, range |-> <<USIZE_MAX, USIZE_MAX>>]
       ELSE IF ~fits_usize(offset) THEN [i |-> Halt(i, "InvalidOperandOOG"), range |-> <<0, 0>>]
       ELSE [i |-> i1, range |-> <<offset, offset + len>>]

\* call_helpers::get_memory_input_and_out_ranges
get_memory_input_and_out_ranges(i) ==
    LET i1 == pop(i, 4)
        inr == resize_memory_and_return_range(i1, i.stack[1], i.stack[2])
        input == slice(inr.i.shared_memory, inr.range[1], inr.range[2] - inr.range[1])
        outr == resize_memory_and_return_range(inr.i, i.stack[3], i.stack[4])
    IN IF ~Continues(i1) THEN [i |-> i1, input |-> <<>>, range |-> <<0, 0>>]
       ELSE IF ~Continues(inr.i) THEN [i |-> inr.i, input |-> <<>>, range |-> <<0, 0>>]
       ELSE [i |-> outr.i, input |-> input, range |-> outr.range]

\* call_helpers::calc_call_gas: the Host loads the target, the access is
\* charged, and the gas to forward is capped at all but a 64th of what is left
calc_call_gas(i, spec, has_transfer, local_gas_limit, is_call_or_callcode, is_call_or_staticcall, ans) ==
    LET cost == call_cost(spec, has_transfer, ~ans.exist, ans.is_cold,
                          is_call_or_callcode, is_call_or_staticcall)
        i1 == gas_charge(i, cost)
        gas == i1.gas.remaining
    IN IF ~ans.ok THEN [i |-> Halt(i, "FatalExternalError"), gas_limit |-> 0]
       ELSE IF ~Continues(i1) THEN [i |-> i1, gas_limit |-> 0]
       ELSE [i |-> i1,
             gas_limit |-> IF enabled(spec, SpecId.TANGERINE)
                           THEN Min(gas - gas \div 64, local_gas_limit)
                           ELSE local_gas_limit]

\* u64::try_from(local_gas_limit).unwrap_or(u64::MAX)
clamp_u64(x) == IF x > U64_MAX THEN U64_MAX ELSE x

\* a bug: the request is not given the stipend
call_stipend_missing(value, gas_limit) == gas_limit

\* the gas limit of the request: the stipend is added when value is transferred
call_stipend(value, gas_limit) ==
    IF value # 0 THEN saturating_add(gas_limit, Schedule.CALL_STIPEND) ELSE gas_limit

\* a bug: every CALL from a static frame goes through
call_in_static_allowed(i, value) == FALSE

\* CALL may not transfer value from a static frame
call_in_static_forbidden(i, value) == i.is_static /\ value # 0

\* a bug: the request is recorded but the frame is not suspended
CallAction_not_suspended(i, inputs) ==
    [i EXCEPT !.next_action = [kind |-> "Call", inputs |-> inputs]]

\* the request is handed to the driver and the frame is suspended
CallAction(i, inputs) ==
    [i EXCEPT !.next_action = [kind |-> "Call", inputs |-> inputs],
              !.instruction_result = "CallOrCreate"]

call(i, h, spec, ans) ==
    LET i1 == pop(i, 1)
        i2 == pop(i1, 1)
        local_gas_limit == clamp_u64(i.stack[1])
        to == i.stack[2]
        i3 == pop(i2, 1)
        value == i.stack[3]
        m == get_memory_input_and_out_ranges(i3)
        g == calc_call_gas(m.i, spec, value # 0, local_gas_limit, TRUE, TRUE, ans)
        i4 == gas_charge(g.i, g.gas_limit)
        inputs == [contract |-> to,
                   transfer |-> [source |-> i.contract.address, target |-> to,
                                 value |-> value],
                   input |-> m.input,
                   gas_limit |-> call_stipend(value, g.gas_limit),
                   context |-> [address |-> to, caller |-> i.contract.address,
                                code_address |-> to, apparent_value |-> value,
                                scheme |-> "Call"],
                   is_static |-> i.is_static,
                   return_memory_offset |-> m.range]
    IN IF ~Continues(i1) THEN Ret(i1, h, <<>>)
       ELSE IF ~Continues(i2) THEN Ret(i2, h, <<>>)
       ELSE IF ~Continues(i3) THEN Ret(i3, h, <<>>)
       ELSE IF call_in_static_forbidden(i, value)
       THEN Ret(Halt(i3, "CallNotAllowedInsideStatic"), h, <<>>)
       ELSE IF ~Continues(m.i) THEN Ret(m.i, h, <<>>)
       ELSE IF ~Continues(g.i) THEN Ret(g.i, h, <<"load_account">>)
       ELSE IF ~Continues(i4) THEN Ret(i4, h, <<"load_account">>)
       ELSE Ret(CallAction(i4, inputs), h, <<"load_account">>)

\* a bug: the nested frame of CALLCODE is never static
call_code_drops_static(i, h, spec, ans) ==
    LET i1 == pop(i, 1)
        i2 == pop(i1, 1)
        local_gas_limit == clamp_u64(i.stack[1])
        to == i.stack[2]
        i3 == pop(i2, 1)
        value == i.stack[3]
        m == get_memory_input_and_out_ranges(i3)
        g == calc_call_gas(m.i, spec, value # 0, local_gas_limit, TRUE, FALSE, ans)
        i4 == gas_charge(g.i, g.gas_limit)
        inputs == [contract |-> to,
                   transfer |-> [source |-> i.contract.address,
                                 target |-> i.contract.address, value |-> value],
                   input |-> m.input,
                   gas_limit |-> call_stipend(value, g.gas_limit),
                   context |-> [address |-> i.contract.address,
                                caller |-> i.contract.address,
                                code_address |-> to, apparent_value |-> value,
                                scheme |-> "CallCode"],
                   is_static |-> FALSE,
                   return_memory_offset |-> m.range]
    IN IF ~Continues(i1) THEN Ret(i1, h, <<>>)
       ELSE IF ~Continues(i2) THEN Ret(i2, h, <<>>)
       ELSE IF ~Continues(i3) THEN Ret(i3, h, <<>>)
       ELSE IF ~Continues(m.i) THEN Ret(m.i, h, <<>>)
       ELSE IF ~Continues(g.i) THEN Ret(g.i, h, <<"load_account">>)
       ELSE IF ~Continues(i4) THEN Ret(i4, h, <<"load_account">>)
       ELSE Ret(CallAction(i4, inputs), h, <<"load_account">>)

call_code(i, h, spec, ans) ==
    LET i1 == pop(i, 1)
        i2 == pop(i1, 1)
        local_gas_limit == clamp_u64(i.stack[1])
        to == i.stack[2]
        i3 == pop(i2, 1)
        value == i.stack[3]
        m == get_memory_input_and_out_ranges(i3)
        g == calc_call_gas(m.i, spec, value # 0, local_gas_limit, TRUE, FALSE, ans)
        i4 == gas_charge(g.i, g.gas_limit)
        inputs == [contract |-> to,
                   transfer |-> [source |-> i.contract.address,
                                 target |-> i.contract.address, value |-> value],
                   input |-> m.input,
                   gas_limit |-> call_stipend(value, g.gas_limit),
                   context |-> [address |-> i.contract.address,
                                caller |-> i.contract.address,
                                code_address |-> to, apparent_value |-> value,
                                scheme |-> "CallCode"],
                   is_static |-> i.is_static,
                   return_memory_offset |-> m.range]
    IN IF ~Continues(i1) THEN Ret(i1, h, <<>>)
       ELSE IF ~Continues(i2) THEN Ret(i2, h, <<>>)
       ELSE IF ~Continues(i3) THEN Ret(i3, h, <<>>)
       ELSE IF ~Continues(m.i) THEN Ret(m.i, h, <<>>)
       ELSE IF ~Continues(g.i) THEN Ret(g.i, h, <<"load_account">>)
       ELSE IF ~Continues(i4) THEN Ret(i4, h, <<"load_account">>)
       ELSE Ret(CallAction(i4, inputs), h, <<"load_account">>)

\* a bug: the transfer of the request carries the frame's own value
dummy_transfer_with_value(i) ==
    [source |-> i.contract.address, target |-> i.contract.address,
     value |-> i.contract.value]

\* the transfer of a DELEGATECALL or STATICCALL request: it moves nothing
dummy_transfer(i) ==
    [source |-> i.contract.address, target |-> i.contract.address, value |-> 0]

\* a bug: the callee sees the current contract as its caller
delegate_call_own_caller(i, h, spec, ans) ==
    LET i0 == check(i, spec, SpecId.HOMESTEAD)
        i1 == pop(i0, 1)
        i2 == pop(i1, 1)
        local_gas_limit == clamp_u64(i.stack[1])
        to == i.stack[2]
        m == get_memory_input_and_out_ranges(i2)
        g == calc_call_gas(m.i, spec, FALSE, local_gas_limit, FALSE, FALSE, ans)
        i4 == gas_charge(g.i, g.gas_limit)
        inputs == [contract |-> to,
                   transfer |-> dummy_transfer(i),
                   input |-> m.input,
                   gas_limit |-> g.gas_limit,
                   context |-> [address |-> i.contract.address,
                                caller |-> i.contract.address,
                                code_address |-> to,
                                apparent_value |-> i.contract.value,
                                scheme |-> "DelegateCall"],
                   is_static |-> i.is_static,
                   return_memory_offset |-> m.range]
    IN IF ~Continues(i0) THEN Ret(i0, h, <<>>)
       ELSE IF ~Continues(i1) THEN Ret(i1, h, <<>>)
       ELSE IF ~Continues(i2) THEN Ret(i2, h, <<>>)
       ELSE IF ~Continues(m.i) THEN Ret(m.i, h, <<>>)
       ELSE IF ~Continues(g.i) THEN Ret(g.i, h, <<"load_account">>)
       ELSE IF ~Continues(i4) THEN Ret(i4, h, <<"load_account">>)
       ELSE Ret(CallAction(i4, inputs), h, <<"load_account">>)

delegate_call(i, h, spec, ans) ==
    LET i0 == check(i, spec, SpecId.HOMESTEAD)
        i1 == pop(i0, 1)
        i2 == pop(i1, 1)
        local_gas_limit == clamp_u64(i.stack[1])
        to == i.stack[2]
        m == get_memory_input_and_out_ranges(i2)
        g == calc_call_gas(m.i, spec, FALSE, local_gas_limit, FALSE, FALSE, ans)
        i4 == gas_charge(g.i, g.gas_limit)
        inputs == [contract |-> to,
                   transfer |-> dummy_transfer(i),
                   input |-> m.input,
                   gas_limit |-> g.gas_limit,
                   context |-> [address |-> i.contract.address,
                                caller |-> i.contract.caller,
                                code_address |-> to,
                                apparent_value |-> i.contract.value,
                                scheme |-> "DelegateCall"],
                   is_static |-> i.is_static,
                   return_memory_offset |-> m.range]
    IN IF ~Continues(i0) THEN Ret(i0, h, <<>>)
       ELSE IF ~Continues(i1) THEN Ret(i1, h, <<>>)
       ELSE IF ~Continues(i2) THEN Ret(i2, h, <<>>)
       ELSE IF ~Continues(m.i) THEN Ret(m.i, h, <<>>)
       ELSE IF ~Continues(g.i) THEN Ret(g.i, h, <<"load_account">>)
       ELSE IF ~Continues(i4) THEN Ret(i4, h, <<"load_account">>)
       ELSE Ret(CallAction(i4, inputs), h, <<"load_account">>)

static_call(i, h, spec, ans) ==
    LET i0 == check(i, spec, SpecId.BYZANTIUM)
        i1 == pop(i0, 1)
        i2 == pop(i1, 1)
        local_gas_limit == clamp_u64(i.stack[1])
        to == i.stack[2]
        m == get_memory_input_and_out_ranges(i2)
        g == calc_call_gas(m.i, spec, FALSE, local_gas_limit, FALSE, TRUE, ans)
        i4 == gas_charge(g.i, g.gas_limit)
        inputs == [contract |-> to,
                   transfer |-> dummy_transfer(i),
                   input |-> m.input,
                   gas_limit |-> g.gas_limit,
                   context |-> [address |-> to, caller |-> i.contract.address,
                                code_address |-> to, apparent_value |-> 0,
                                scheme |-> "StaticCall"],
                   is_static |-> TRUE,
                   return_memory_offset |-> m.range]
    IN IF ~Continues(i0) THEN Ret(i0, h, <<>>)
       ELSE IF ~Continues(i1) THEN Ret(i1, h, <<>>)
       ELSE IF ~Continues(i2) THEN Ret(i2, h, <<>>)
       ELSE IF ~Continues(m.i) THEN Ret(m.i, h, <<>>)
       ELSE IF ~Continues(g.i) THEN Ret(g.i, h, <<"load_account">>)
       ELSE IF ~Continues(i4) THEN Ret(i4, h, <<"load_account">>)
       ELSE Ret(CallAction(i4, inputs), h, <<"load_account">>)

\* memory.rs
mcopy(i, h, spec, ans) ==
    LET i0 == check(i, spec, SpecId.CANCUN)
        i1 == pop(i0, 3)
        dst == i0.stack[1]
        src == i0.stack[2]
        len == i0.stack[3]
        i2 == gas_or_fail(i1, verylowcopy_cost(len))
        i3 == shared_memory_resize(i2, Max(dst, src), len)
    IN IF ~Continues(i0) THEN Ret(i0, h, <<>>)
       ELSE IF ~Continues(i1) THEN Ret(i1, h, <<>>)
       ELSE IF ~fits_usize(len) THEN Ret(Halt(i1, "InvalidOperandOOG"), h, <<>>)
       ELSE IF ~Continues(i2) THEN Ret(i2, h, <<>>)
       ELSE IF len = 0 THEN Ret(i2, h, <<>>)
       ELSE IF ~fits_usize(dst) THEN Ret(Halt(i2, "InvalidOperandOOG"), h, <<>>)
       ELSE IF ~fits_usize(src) THEN Ret(Halt(i2, "InvalidOperandOOG"), h, <<>>)
       ELSE IF ~Continues(i3) THEN Ret(i3, h, <<>>)
       ELSE Ret([i3 EXCEPT !.shared_memory = copy(@, dst, src, len)], h, <<>>)

-----------------------------------------------------------------------------
(* One call frame running handlers against a Host *)

\* a U256 word: zero, a small non-zero word, a word that fits no usize or u64
TooBig == USIZE_MAX + 1
Word == {0, 1, TooBig}

\* the operand stacks of at most n words
Stacks(n) == UNION {[1..k -> Word] : k \in 0..n}

\* the frame's own contract: address, caller and value
SelfAddress == 1
Contract(value) == [address |-> SelfAddress, caller |-> 2, value |-> value]

\* the Host: the environment, and what the frame has stored, logged and
\* destroyed through it
Host(number, limit, v) ==
    [env |-> [block |-> [number |-> number],
              cfg |-> [limit_contract_code_size |-> limit]],
     storage |-> [w \in Word |-> v],
     transient |-> [w \in Word |-> 0],
     logs |-> <<>>,
     selfdestructs |-> <<>>]

\* the answers of the Host: Answer with its fields varied, or Fatal, the
\* fatal external error
Answer == [ok |-> TRUE, is_cold |-> FALSE, value |-> 1, code |-> <<7>>, original |-> 0,
           exist |-> TRUE, had_value |-> FALSE, target_exists |-> TRUE,
           previously_destroyed |-> FALSE]
Fatal == [Answer EXCEPT !.ok = FALSE]

\* the operands a handler took: the words that left the top of the stack
Popped(before, after) ==
    IF Len(after) < Len(before) THEN SubSeq(before, 1, Len(before) - Len(after)) ELSE <<>>

\* the outer loop runs the handler of the next opcode while the frame
\* continues; r is what the handler returns, popped what is remembered of
\* its operands
Step(op, ans, r, popped) ==
    /\ Continues(interpreter)
    /\ last.step < MaxSteps
    /\ interpreter' = r.interpreter
    /\ host' = r.host
    /\ last' = [op |-> op, ans |-> ans, calls |-> r.calls, step |-> last.step + 1,
                popped |-> popped]
    /\ UNCHANGED <<accounts, contracts, block_hashes, db, SPEC>>

InitFrame(revisions, stacks, gas_limits, values, hosts) ==
    /\ accounts = new.accounts
    /\ contracts = new.contracts
    /\ block_hashes = new.block_hashes
    /\ db = EmptyDB
    /\ SPEC \in revisions
    /\ \E stack \in stacks, gas_limit \in gas_limits, is_static \in BOOLEAN, value \in values :
          interpreter = Interpreter(stack, gas_limit, is_static, Contract(value))
    /\ host \in hosts
    /\ last = [op |-> "new", ans |-> Answer, calls |-> <<>>, step |-> 0, popped |-> <<>>]

Creates == {"CREATE", "CREATE2"}
Calls == {"CALL", "CALLCODE", "DELEGATECALL", "STATICCALL"}

\* what the Host may answer to the call that the handler of op makes
Answers(op) ==
    CASE op \in {"BALANCE", "SELFBALANCE", "EXTCODESIZE", "EXTCODEHASH", "EXTCODECOPY",
                 "SLOAD"} ->
             {[Answer EXCEPT !.is_cold = c] : c \in BOOLEAN} \cup {Fatal}
      [] op = "BLOCKHASH" -> {Answer, [Answer EXCEPT !.value = TooBig], Fatal}
      [] op = "SSTORE" ->
             {[Answer EXCEPT !.is_cold = c, !.original = o] : c \in BOOLEAN, o \in {0, 1}}
                 \cup {Fatal}
      [] op = "SELFDESTRUCT" ->
             {[Answer EXCEPT !.is_cold = c, !.had_value = v, !.target_exists = e,
                             !.previously_destroyed = p] :
                 c \in BOOLEAN, v \in BOOLEAN, e \in BOOLEAN, p \in BOOLEAN} \cup {Fatal}
      [] op \in Calls ->
             {[Answer EXCEPT !.is_cold = c, !.exist = e] : c \in BOOLEAN, e \in BOOLEAN}
                 \cup {Fatal}
      [] OTHER -> {Answer}

\* the instruction table: the handler of each opcode
Handler(op, i, h, spec, ans) ==
    CASE op = "BALANCE" -> balance(i, h, spec, ans)
      [] op = "SELFBALANCE" -> selfbalance(i, h, spec, ans)
      [] op = "EXTCODESIZE" -> extcodesize(i, h, spec, ans)
      [] op = "EXTCODEHASH" -> extcodehash(i, h, spec, ans)
      [] op = "EXTCODECOPY" -> extcodecopy(i, h, spec, ans)
      [] op = "BLOCKHASH" -> blockhash(i, h, spec, ans)
      [] op = "SLOAD" -> sload(i, h, spec, ans)
      [] op = "SSTORE" -> sstore(i, h, spec, ans)
      [] op = "TSTORE" -> tstore(i, h, spec, ans)
      [] op = "TLOAD" -> tload(i, h, spec, ans)
      [] op = "LOG0" -> log(0, i, h, spec, ans)
      [] op = "LOG1" -> log(1, i, h, spec, ans)
      [] op = "LOG2" -> log(2, i, h, spec, ans)
      [] op = "LOG3" -> log(3, i, h, spec, ans)
      [] op = "LOG4" -> log(4, i, h, spec, ans)
      [] op = "SELFDESTRUCT" -> selfdestruct(i, h, spec, ans)
      [] op = "CREATE" -> create(FALSE, i, h, spec, ans)
      [] op = "CREATE2" -> create(TRUE, i, h, spec, ans)
      [] op = "CALL" -> call(i, h, spec, ans)
      [] op = "CALLCODE" -> call_code(i, h, spec, ans)
      [] op = "DELEGATECALL" -> delegate_call(i, h, spec, ans)
      [] op = "STATICCALL" -> static_call(i, h, spec, ans)
      [] op = "MCOPY" -> mcopy(i, h, spec, ans)

\* the frame executes the opcode op
Run(op) ==
    \E ans \in Answers(op) : Step(op, ans, Handler(op, interpreter, host, SPEC, ans), <<>>)

\* the frame executes the opcode op and its operands are remembered
RunObserved(op) ==
    \E ans \in Answers(op) :
        LET r == Handler(op, interpreter, host, SPEC, ans)
        IN Step(op, ans, r, Popped(interpreter.stack, r.interpreter.stack))

Revisions == {SpecId.FRONTIER, SpecId.HOMESTEAD, SpecId.TANGERINE, SpecId.SPURIOUS_DRAGON, SpecId.BYZANTIUM, SpecId.CONSTANTINOPLE,
              SpecId.PETERSBURG, SpecId.ISTANBUL, SpecId.BERLIN, SpecId.LONDON, SpecId.SHANGHAI, SpecId.CANCUN}

\* the gas limits of a frame: none, the call stipend, what leaves 6400 after
\* the cost of CREATE, plenty
GasLimits == {0, Schedule.CALL_STIPEND, Schedule.CREATE + 6400, 100000}

\* the opcodes that read and write the state behind the Host
InitHost == InitFrame(Revisions, Stacks(MaxOperands), GasLimits, {0}, {Host(1, None, 0)})

NextHost ==
    \/ Run("BALANCE") \/ Run("SELFBALANCE") \/ Run("EXTCODESIZE") \/ Run("EXTCODEHASH")
    \/ Run("EXTCODECOPY") \/ Run("BLOCKHASH") \/ Run("SLOAD") \/ Run("SSTORE")
    \/ Run("TSTORE") \/ Run("TLOAD")
    \/ Run("LOG0") \/ Run("LOG1") \/ Run("LOG2") \/ Run("LOG3") \/ Run("LOG4")
    \/ Run("SELFDESTRUCT") \/ Run("CREATE") \/ Run("CREATE2")

SpecHost == InitHost /\ [][NextHost]_vars

\* the opcodes that suspend the frame with a request to the driver, at the
\* revisions that change a gate, a cost or the forwarding of a call or create
CallRevisions == {SpecId.FRONTIER, SpecId.HOMESTEAD, SpecId.TANGERINE, SpecId.SPURIOUS_DRAGON, SpecId.BYZANTIUM, SpecId.PETERSBURG,
                  SpecId.BERLIN, SpecId.SHANGHAI}

InitCall ==
    InitFrame(CallRevisions, Stacks(MaxCallOperands), GasLimits \ {0}, {0, 1},
              {Host(1, None, 0)})

NextCall ==
    \/ Run("CREATE") \/ Run("CREATE2")
    \/ Run("CALL") \/ Run("CALLCODE") \/ Run("DELEGATECALL") \/ Run("STATICCALL")

SpecCall == InitCall /\ [][NextCall]_vars

\* BLOCKHASH at current blocks on both sides of the history window
BlockNumbers ==
    {0, 1, 2, BLOCK_HASH_HISTORY, BLOCK_HASH_HISTORY + 1, BLOCK_HASH_HISTORY + 2, TooBig}

InitBlock ==
    InitFrame(Revisions, Stacks(MaxOperands), GasLimits, {0},
              {Host(number, None, 0) : number \in BlockNumbers})

SpecBlock == InitBlock /\ [][Run("BLOCKHASH")]_vars

\* the opcodes that copy a range of bytes into or out of the memory
NextCopy ==
    \/ RunObserved("EXTCODECOPY") \/ RunObserved("MCOPY")
    \/ RunObserved("LOG0") \/ RunObserved("LOG1") \/ RunObserved("LOG2") \/ RunObserved("LOG3")
    \/ RunObserved("LOG4")

SpecCopy == InitHost /\ [][NextCopy]_vars

\* CREATE and CREATE2 with init code around the limits: the limit of a
\* configured code size of 1, the limit without a configured one, and a
\* configured code size whose double fits no usize
InitCodeWords == {0, 2, 3, MAX_INITCODE_SIZE, MAX_INITCODE_SIZE + 1}
CodeSizeLimits == {None, Some(1), Some(USIZE_MAX)}

\* the operands of a create: value, code_offset, len and, for CREATE2, salt
CreateStacks ==
    {<<>>} \cup {<<value, code_offset, len>> \o salt :
                    value \in {0, 1}, code_offset \in {0, 2}, len \in InitCodeWords,
                    salt \in {<<>>, <<0>>}}

InitCreate ==
    InitFrame({SpecId.LONDON, SpecId.SHANGHAI, SpecId.CANCUN}, CreateStacks, GasLimits, {0},
              {Host(1, limit, 0) : limit \in CodeSizeLimits})

NextCreate == RunObserved("CREATE") \/ RunObserved("CREATE2")

SpecCreate == InitCreate /\ [][NextCreate]_vars

-----------------------------------------------------------------------------
(* Properties *)

MutReads == {"basic", "storage", "code_by_hash", "block_hash"}
RefReads == {"basic_ref", "storage_ref", "code_by_hash_ref", "block_hash_ref"}

\* the read that l records, issued on the cache c while the source answers
Again(c, l) ==
    CASE l.op = "basic" -> basic(c, l.a, SrcMethods)
      [] l.op = "storage" -> storage(c, l.a, l.x, SrcMethods)
      [] l.op = "code_by_hash" -> code_by_hash(c, l.x, SrcMethods)
      [] l.op = "block_hash" -> block_hash(c, l.x, SrcMethods)
      [] l.op = "basic_ref" -> basic_ref(c, l.a, SrcMethods)
      [] l.op = "storage_ref" -> storage_ref(c, l.a, l.x, SrcMethods)
      [] l.op = "code_by_hash_ref" -> code_by_hash_ref(c, l.x, SrcMethods)
      [] l.op = "block_hash_ref" -> block_hash_ref(c, l.x, SrcMethods)

\* C1: once a mutable-path read has returned successfully, the same read
\* never invokes the source again, whatever operation happens in between:
\* after a successful read and any one further operation, issuing the read
\* again makes no call to the source.
C1_MemoizedForever ==
    [][(last.op \in MutReads /\ last.ok) => Again(Cache', last).calls = <<>>]_vars

\* storage(address, index) on the cache c answers zero from the cache alone on
\* both paths, whether or not the source answers, and leaves the cache as it is
ZeroFromCache(c, address, index) ==
    \A avail \in Avail({"basic", "storage"}) :
        LET m == storage(c, address, index, avail)
            r == storage_ref(c, address, index, avail)
        IN /\ m.ok /\ m.val = U256_ZERO /\ m.calls = <<>> /\ m.cache = c
           /\ r.ok /\ r.val = U256_ZERO /\ r.calls = <<>> /\ r.cache = c

\* C2: in every reachable state, for every cached account marked
\* StorageCleared or NotExisting and every key absent from its storage,
\* storage answers zero on both paths without invoking the source and
\* without inserting the key.
C2_ClearedReadsZero ==
    \A a \in DOMAIN accounts, k \in Key :
        (/\ accounts[a].account_state \in {"StorageCleared", "NotExisting"}
         /\ k \notin DOMAIN accounts[a].storage)
        => ZeroFromCache(Cache, a, k)

\* a storage read has just answered zero from a NotExisting record whose slot
\* the source holds a non-zero value for
C2_Witness ==
    /\ last.op \in {"storage", "storage_ref"}
    /\ last.a \in DOMAIN accounts
    /\ accounts[last.a].account_state = "NotExisting"
    /\ last.x \notin DOMAIN accounts[last.a].storage
    /\ db.storage[last.a][last.x] # U256_ZERO
    /\ last.ok /\ last.val = U256_ZERO /\ last.calls = <<>>

\* C3: StorageCleared is sticky.  A commit whose delta for a clears storage
\* (and does not destroy) leaves a StorageCleared with exactly the delta's
\* slots; a later commit whose delta for a neither clears nor destroys leaves
\* a StorageCleared, adds only the delta's slots, and every key still absent
\* resolves to zero from the cache alone.
C3_StickyStorageCleared ==
    [][last'.op = "commit" =>
        \A a \in DOMAIN last'.changes :
            LET d == last'.changes[a] IN
            /\ (~d.is_destroyed /\ d.storage_cleared) =>
                   /\ accounts'[a].account_state = "StorageCleared"
                   /\ DOMAIN accounts'[a].storage = DOMAIN d.storage
            /\ (/\ ~d.is_destroyed /\ ~d.storage_cleared
                /\ a \in DOMAIN accounts
                /\ accounts[a].account_state = "StorageCleared") =>
                   /\ accounts'[a].account_state = "StorageCleared"
                   /\ DOMAIN accounts'[a].storage =
                          (DOMAIN accounts[a].storage) \cup (DOMAIN d.storage)
                   /\ \A k \in Key \ DOMAIN accounts'[a].storage :
                          ZeroFromCache(Cache', a, k)]_vars

\* a commit that neither clears nor destroys has just been applied to a
\* StorageCleared account, which has an absent key the source holds non-zero
C3_Witness ==
    /\ last.op = "commit"
    /\ \E a \in DOMAIN last.changes :
          /\ ~last.changes[a].is_destroyed
          /\ ~last.changes[a].storage_cleared
          /\ last.changes[a].storage # EmptyMap
          /\ accounts[a].account_state = "StorageCleared"
          /\ \E k \in Key \ DOMAIN accounts[a].storage : db.storage[a][k] # U256_ZERO

\* C4: after commit applies a destroyed delta for a, a's record has empty
\* storage, marker NotExisting and default info, the delta's code is not
\* registered, every key reads zero from the cache alone and basic(a) reports
\* no account.
C4_DestroyedLosesStorage ==
    [][last'.op = "commit" =>
        \A a \in DOMAIN last'.changes :
            last'.changes[a].is_destroyed =>
                /\ accounts'[a] = [info |-> DefaultInfo,
                                   account_state |-> "NotExisting",
                                   storage |-> EmptyMap]
                /\ (DOMAIN last'.changes = {a}) => contracts' = contracts
                /\ \A k \in Key : ZeroFromCache(Cache', a, k)
                /\ \A avail \in Avail({"basic"}) :
                      /\ basic(Cache', a, avail).info = None
                      /\ basic(Cache', a, avail).calls = <<>>
                      /\ basic_ref(Cache', a, avail).info = None]_vars

\* a destroyed delta carrying code and storage writes has just been committed
\* for an account the source has info and non-zero slots for
C4_Witness ==
    /\ last.op = "commit"
    /\ \E a \in DOMAIN last.changes :
          /\ last.changes[a].is_destroyed
          /\ last.changes[a].storage # EmptyMap
          /\ last.changes[a].info.code # None
          /\ db.basic[a] # None
          /\ \E k \in Key : db.storage[a][k] # U256_ZERO

\* C5: commit is idempotent.  Right after a commit of a batch, committing the
\* same batch again, in any order of its entries, leaves accounts and
\* contracts as they are.
C5_CommitIdempotent ==
    last.op = "commit" =>
        \A order \in Orders(DOMAIN last.changes) :
            LET again == commit(Cache, last.changes, order).cache
            IN again.accounts = accounts /\ again.contracts = contracts

\* a batch with a delta for every address, one destroyed and one that writes
\* a slot of a StorageCleared account without clearing, has just been committed
C5_Witness ==
    /\ last.op = "commit"
    /\ DOMAIN last.changes = Addr
    /\ \E a \in Addr : last.changes[a].is_destroyed
    /\ \E a \in Addr :
          /\ ~last.changes[a].is_destroyed
          /\ ~last.changes[a].storage_cleared
          /\ last.changes[a].storage # EmptyMap
          /\ last.changes[a].info.code # None
          /\ accounts[a].account_state = "StorageCleared"

\* the read recorded by l misses the cache c
Miss(c, l) ==
    CASE l.op \in {"basic", "basic_ref"} -> l.a \notin DOMAIN c.accounts
      [] l.op \in {"storage", "storage_ref"} ->
            \/ l.a \notin DOMAIN c.accounts
            \/ /\ l.x \notin DOMAIN c.accounts[l.a].storage
               /\ c.accounts[l.a].account_state \notin {"StorageCleared", "NotExisting"}
      [] l.op \in {"code_by_hash", "code_by_hash_ref"} -> l.x \notin DOMAIN c.contracts
      [] l.op \in {"block_hash", "block_hash_ref"} -> l.x \notin DOMAIN c.block_hashes

\* the source method a non-mutating read forwards to
RefMethod(op) ==
    CASE op = "basic_ref" -> "basic"
      [] op = "storage_ref" -> "storage"
      [] op = "code_by_hash_ref" -> "code_by_hash"
      [] op = "block_hash_ref" -> "block_hash"

\* C6: a non-mutating read changes none of accounts, contracts and
\* block_hashes; on a miss it makes exactly one call to the source, and the
\* same read issued again makes that call again; on a hit it makes none.
C6_RefReadsDoNotFill ==
    [][last'.op \in RefReads =>
        /\ accounts' = accounts
        /\ contracts' = contracts
        /\ block_hashes' = block_hashes
        /\ IF Miss(Cache, last')
           THEN /\ last'.calls = <<RefMethod(last'.op)>>
                /\ Again(Cache', last').calls = last'.calls
           ELSE last'.calls = <<>>]_vars

\* a non-mutating storage read of a cached account has just been answered by
\* the source
C6_Witness ==
    /\ last.op = "storage_ref"
    /\ last.a \in DOMAIN accounts
    /\ last.ok /\ last.calls = <<"storage">> /\ last.val # U256_ZERO

\* two results agree: both fail on the same source method, or both succeed
\* with the same value
SameResult(r1, r2) ==
    /\ r1.ok = r2.ok
    /\ r1.info = r2.info
    /\ r1.val = r2.val
    /\ ~r1.ok => r1.calls[Len(r1.calls)] = r2.calls[Len(r2.calls)]

\* C7 as claimed: with the source answering, every non-mutating read returns
\* what the mutable read would return from the same state.
C7_RefMirrorsMutable ==
    /\ \A a \in Addr :
          SameResult(basic_ref(Cache, a, SrcMethods), basic(Cache, a, SrcMethods))
    /\ \A a \in Addr, k \in Key :
          SameResult(storage_ref(Cache, a, k, SrcMethods), storage(Cache, a, k, SrcMethods))
    /\ \A h \in Hash :
          SameResult(code_by_hash_ref(Cache, h, SrcMethods), code_by_hash(Cache, h, SrcMethods))
    /\ \A n \in BlockNum :
          SameResult(block_hash_ref(Cache, n, SrcMethods), block_hash(Cache, n, SrcMethods))

\* C7 amended: whichever source methods answer, basic, code_by_hash and
\* block_hash return the same on both paths, and so does storage(a, k) unless
\* a has no cached record and the source's basic(a) fails or reports no
\* account: then the mutable path returns that error, or zero, without
\* asking the source's storage, and the non-mutating path returns the answer
\* of the source's storage(a, k).
C7_RefMirrorsMutableButVacantNoInfo ==
    \A avail \in SUBSET SrcMethods :
        /\ \A a \in Addr : SameResult(basic_ref(Cache, a, avail), basic(Cache, a, avail))
        /\ \A h \in Hash :
              SameResult(code_by_hash_ref(Cache, h, avail), code_by_hash(Cache, h, avail))
        /\ \A n \in BlockNum :
              SameResult(block_hash_ref(Cache, n, avail), block_hash(Cache, n, avail))
        /\ \A a \in Addr, k \in Key :
              LET m == storage(Cache, a, k, avail)
                  r == storage_ref(Cache, a, k, avail)
              IN IF a \notin DOMAIN accounts /\ ("basic" \notin avail \/ db.basic[a] = None)
                 THEN /\ m.calls = <<"basic">>
                      /\ m.ok = ("basic" \in avail)
                      /\ m.val = U256_ZERO
                      /\ r.calls = <<"storage">>
                      /\ r.ok = ("storage" \in avail)
                      /\ r.ok => r.val = db.storage[a][k]
                 ELSE SameResult(r, m)

\* a non-mutating storage read of an absent slot of a cached, Touched account
\* has just returned the source's non-zero value, as the mutable read would
C7_Witness ==
    /\ last.op = "storage_ref"
    /\ last.a \in DOMAIN accounts
    /\ accounts[last.a].account_state = "Touched"
    /\ last.x \notin DOMAIN accounts[last.a].storage
    /\ last.ok /\ last.val # U256_ZERO
    /\ last.val = storage(Cache, last.a, last.x, SrcMethods).val

\* C8: contracts always maps KECCAK_EMPTY and the zero hash to the empty
\* bytecode, and code_by_hash of either answers from the cache alone on both
\* paths.
C8_SentinelHashesSeeded ==
    \A h \in {KECCAK_EMPTY, ZERO_HASH} :
        /\ h \in DOMAIN contracts
        /\ contracts[h] = 0
        /\ \A avail \in Avail({"code_by_hash"}) :
              LET m == code_by_hash(Cache, h, avail)
                  r == code_by_hash_ref(Cache, h, avail)
              IN /\ m.ok /\ m.val = 0 /\ m.calls = <<>> /\ m.cache = Cache
                 /\ r.ok /\ r.val = 0 /\ r.calls = <<>>

\* code_by_hash of the zero hash has just answered from the cache, after some
\* code was registered in contracts
C8_Witness ==
    /\ last.op = "code_by_hash"
    /\ last.x = ZERO_HASH
    /\ last.ok /\ last.val = 0 /\ last.calls = <<>>
    /\ DOMAIN contracts # {KECCAK_EMPTY, ZERO_HASH}

\* C9: insert_account_info(a, inf) replaces only the info of a's record: the
\* record carries inf's balance, nonce and code, keeps its storage and state
\* (empty storage and None for a missing record), every other address keeps
\* its record or its absence, block_hashes is unchanged and the source is not
\* consulted.
C9_InsertAccountInfoFrame ==
    \A a \in Addr, inf \in InfoInputs :
        LET r == insert_account_info(Cache, a, inf)
            after == r.cache.accounts
        IN /\ r.ok /\ r.calls = <<>>
           /\ DOMAIN after = (DOMAIN accounts) \cup {a}
           /\ after[a].info.balance = inf.balance
           /\ after[a].info.nonce = inf.nonce
           /\ after[a].info.code = inf.code
           /\ IF a \in DOMAIN accounts
              THEN /\ after[a].storage = accounts[a].storage
                   /\ after[a].account_state = accounts[a].account_state
              ELSE /\ after[a].storage = EmptyMap
                   /\ after[a].account_state = "None"
           /\ \A b \in (DOMAIN accounts) \ {a} : after[b] = accounts[b]
           /\ r.cache.block_hashes = block_hashes

\* insert_account_info has just been applied to a StorageCleared account with
\* cached storage, while another account is cached with storage too
C9_Witness ==
    /\ last.op = "insert_account_info"
    /\ accounts[last.a].account_state = "StorageCleared"
    /\ accounts[last.a].storage # EmptyMap
    /\ \E b \in (DOMAIN accounts) \ {last.a} : accounts[b].storage # EmptyMap

\* C10: after a successful insert_account_storage(a, k, v), storage(a, k)
\* returns v from the cache alone on both paths, every other cached slot of a
\* keeps its value, no other slot appears, and the state of an already
\* cached record is unchanged.
C10_InsertAccountStorage ==
    [][(last'.op = "insert_account_storage" /\ last'.ok) =>
        LET a == last'.a
            k == last'.x
            v == last'.val
        IN /\ \A avail \in Avail({"basic", "storage"}) :
                 LET m == storage(Cache', a, k, avail)
                     r == storage_ref(Cache', a, k, avail)
                 IN /\ m.ok /\ m.val = v /\ m.calls = <<>>
                    /\ r.ok /\ r.val = v /\ r.calls = <<>>
           /\ IF a \in DOMAIN accounts
              THEN /\ DOMAIN accounts'[a].storage = (DOMAIN accounts[a].storage) \cup {k}
                   /\ \A j \in (DOMAIN accounts[a].storage) \ {k} :
                         accounts'[a].storage[j] = accounts[a].storage[j]
                   /\ accounts'[a].account_state = accounts[a].account_state
              ELSE DOMAIN accounts'[a].storage = {k}]_vars

\* insert_account_storage has just written a value that differs from the
\* source's into a Touched account that caches another slot as well
C10_Witness ==
    /\ last.op = "insert_account_storage"
    /\ last.ok
    /\ accounts[last.a].account_state = "Touched"
    /\ accounts[last.a].storage[last.x] = last.val
    /\ last.val # db.storage[last.a][last.x]
    /\ DOMAIN accounts[last.a].storage # {last.x}

\* C11: after a successful replace_account_storage(a, S), a's marker is
\* StorageCleared, its cached storage is exactly S, and storage(a, k) returns
\* S[k] for every k in S and zero for every other k, from the cache alone on
\* both paths: never the value cached before, never the source's.
C11_ReplaceAccountStorage ==
    [][(last'.op = "replace_account_storage" /\ last'.ok) =>
        LET a == last'.a
            S == last'.changes
        IN /\ accounts'[a].account_state = "StorageCleared"
           /\ accounts'[a].storage = S
           /\ \A k \in Key, avail \in Avail({"basic", "storage"}) :
                 LET m == storage(Cache', a, k, avail)
                     r == storage_ref(Cache', a, k, avail)
                     want == IF k \in DOMAIN S THEN S[k] ELSE U256_ZERO
                 IN /\ m.ok /\ m.val = want /\ m.calls = <<>>
                    /\ r.ok /\ r.val = want /\ r.calls = <<>>]_vars

\* replace_account_storage has just given an account the source has info for
\* a storage that leaves out a slot the source holds a non-zero value for
C11_Witness ==
    /\ last.op = "replace_account_storage"
    /\ last.ok
    /\ db.basic[last.a] # None
    /\ accounts[last.a].storage = last.changes
    /\ \E k \in Key \ DOMAIN last.changes :
          /\ db.storage[last.a][k] # U256_ZERO
          /\ storage(Cache, last.a, k, SrcMethods).val = U256_ZERO
    /\ \E k \in DOMAIN last.changes : last.changes[k] # db.storage[last.a][k]

\* C12: insert_account_storage and replace_account_storage do not override
\* account info: after a successful call on a, basic(a) returns what it would
\* have returned right before the call.
C12_StorageWritesKeepInfo ==
    [][(last'.op \in {"insert_account_storage", "replace_account_storage"} /\ last'.ok) =>
        LET before == basic(Cache, last'.a, SrcMethods)
            after == basic(Cache', last'.a, SrcMethods)
        IN before.ok = after.ok /\ before.info = after.info]_vars

-----------------------------------------------------------------------------
(* Properties of the handlers *)

Result(i) == i.instruction_result

\* s is t without some of its top words
IsSuffix(s, t) == Len(s) <= Len(t) /\ s = SubSeq(t, Len(t) - Len(s) + 1, Len(t))

\* the opcode op is enabled at the revision spec
Activated(op, spec) ==
    CASE op = "TSTORE" -> enabled(spec, SpecId.CANCUN)
      [] op = "CREATE2" -> enabled(spec, SpecId.PETERSBURG)
      [] OTHER -> TRUE

StateMutating == {"SSTORE", "TSTORE", "LOG0", "LOG1", "LOG2", "LOG3", "LOG4", "SELFDESTRUCT",
                  "CREATE", "CREATE2"}

\* C13: in a static frame every state-mutating opcode that is enabled at the
\* revision ends with the static-context violation and changes nothing else:
\* no operand popped, no gas charged, no refund, no Host call, no next action.
C13_StaticGuard ==
    [][(last'.op \in StateMutating /\ interpreter.is_static /\ Activated(last'.op, SPEC)) =>
        /\ interpreter' = Halt(interpreter, "StateChangeDuringStaticCall")
        /\ host' = host
        /\ last'.calls = <<>>]_vars

\* TSTORE has just been refused in a static frame that had the operands and
\* the gas to run it
C13_Witness ==
    /\ last.op = "TSTORE"
    /\ interpreter.is_static
    /\ enabled(SPEC, SpecId.CANCUN)
    /\ Result(interpreter) = "StateChangeDuringStaticCall"
    /\ Len(interpreter.stack) >= 2
    /\ interpreter.gas.remaining >= Schedule.WARM_STORAGE_READ_COST

\* C14: CALL in a static frame with a non-zero value operand ends with the
\* static-context violation with no gas charged, no memory grown, no Host
\* call and no call request; with a zero value it never ends with that
\* outcome.
C14_StaticCallValue ==
    [][(last'.op = "CALL" /\ interpreter.is_static /\ Len(interpreter.stack) >= 3) =>
        IF interpreter.stack[3] # 0
        THEN /\ Result(interpreter') = "CallNotAllowedInsideStatic"
             /\ interpreter'.gas = interpreter.gas
             /\ interpreter'.shared_memory = interpreter.shared_memory
             /\ interpreter'.next_action = interpreter.next_action
             /\ last'.calls = <<>>
             /\ host' = host
        ELSE Result(interpreter') # "CallNotAllowedInsideStatic"]_vars

\* CALL with a non-zero value has just been refused in a static frame that
\* had every operand and gas left
C14_Witness ==
    /\ last.op = "CALL"
    /\ interpreter.is_static
    /\ Result(interpreter) = "CallNotAllowedInsideStatic"
    /\ Len(interpreter.stack) = 4
    /\ interpreter.gas.remaining > Schedule.COLD_ACCOUNT_ACCESS_COST
    /\ last.calls = <<>>

HostReaders == {"BALANCE", "SELFBALANCE", "EXTCODESIZE", "EXTCODEHASH", "EXTCODECOPY",
                "BLOCKHASH", "SLOAD", "SSTORE", "SELFDESTRUCT"}

\* C15: when the Host signals a fatal external error to one of these
\* handlers, the handler ends with FatalExternalError, the failed call is the
\* only Host call, nothing is pushed on the stack and no refund is recorded.
C15_FatalExternalError ==
    [][(last'.op \in HostReaders /\ last'.calls # <<>> /\ ~last'.ans.ok) =>
        /\ Result(interpreter') = "FatalExternalError"
        /\ Len(last'.calls) = 1
        /\ IsSuffix(interpreter'.stack, interpreter.stack)
        /\ interpreter'.gas.refunded = interpreter.gas.refunded
        /\ interpreter'.next_action = interpreter.next_action]_vars

\* the Host has just failed the sload of a frame that had the gas to pay for it
C15_Witness ==
    /\ last.op = "SLOAD"
    /\ last.calls = <<"sload">>
    /\ ~last.ans.ok
    /\ Result(interpreter) = "FatalExternalError"
    /\ interpreter.gas.remaining > Schedule.COLD_SLOAD_COST

\* C16: SSTORE executed, from the revision of the minimum stipend on, with no
\* more gas left than the stipend and a Host that does not fail, ends out of
\* gas with nothing mutated: the slot keeps the value it had behind the Host
\* and no refund is recorded.
C16_SstoreStipendBeforeStore ==
    [][(/\ last'.op = "SSTORE"
        /\ ~interpreter.is_static
        /\ Len(interpreter.stack) >= 2
        /\ enabled(SPEC, SpecId.ISTANBUL)
        /\ interpreter.gas.remaining <= Schedule.CALL_STIPEND
        /\ last'.ans.ok) =>
        /\ Result(interpreter') = "OutOfGas"
        /\ host'.storage = host.storage
        /\ interpreter'.gas.refunded = interpreter.gas.refunded]_vars

\* C17: a create request takes all the gas r left after the creation costs
\* but floor(r / 64), which the suspended frame keeps, from SpecId.TANGERINE on; before
\* it takes all of r.  For CREATE with empty init code r is the gas left
\* before less the cost of CREATE.
C17_CreateL64 ==
    [][(last'.op \in Creates /\ Result(interpreter') = "CallOrCreate") =>
        LET gas_limit == interpreter'.next_action.inputs.gas_limit
            kept == interpreter'.gas.remaining
            r == gas_limit + kept
        IN /\ IF enabled(SPEC, SpecId.TANGERINE)
              THEN kept = r \div 64 /\ gas_limit = r - r \div 64
              ELSE kept = 0 /\ gas_limit = r
           /\ (last'.op = "CREATE" /\ interpreter.stack[3] = 0)
                 => r = interpreter.gas.remaining - Schedule.CREATE]_vars

\* CREATE has just been given 6300 of the 6400 gas left after its cost
C17_Witness ==
    /\ last.op = "CREATE"
    /\ enabled(SPEC, SpecId.TANGERINE)
    /\ Result(interpreter) = "CallOrCreate"
    /\ interpreter.next_action.inputs.gas_limit = 6300
    /\ interpreter.gas.remaining = 100

\* C18: a handler of the call and create family records a request in
\* next_action exactly when it ends with CallOrCreate, and the request is of
\* the handler's kind; when it ends any other way next_action is unchanged.
C18_RequestIffCallOrCreate ==
    [][(last'.op \in Creates \cup Calls) =>
        IF Result(interpreter') = "CallOrCreate"
        THEN /\ interpreter'.next_action # interpreter.next_action
             /\ interpreter'.next_action.kind =
                    IF last'.op \in Creates THEN "Create" ELSE "Call"
        ELSE /\ interpreter'.next_action = interpreter.next_action
             /\ Result(interpreter') # "Continue"]_vars

\* CALLCODE has just run out of gas after the Host loaded the target
C18_Witness ==
    /\ last.op = "CALLCODE"
    /\ last.calls = <<"load_account">>
    /\ last.ans.ok
    /\ Result(interpreter) = "OutOfGas"
    /\ interpreter.next_action.kind = "None"

\* C19: every request of DELEGATECALL and STATICCALL carries a transfer of
\* value zero from the current contract to itself, whatever the frame's value.
C19_DummyTransfer ==
    [][(last'.op \in {"DELEGATECALL", "STATICCALL"}
            /\ Result(interpreter') = "CallOrCreate") =>
        interpreter'.next_action.inputs.transfer =
            [source |-> interpreter.contract.address,
             target |-> interpreter.contract.address,
             value |-> 0]]_vars

\* DELEGATECALL has just issued a request from a frame that holds value
C19_Witness ==
    /\ last.op = "DELEGATECALL"
    /\ Result(interpreter) = "CallOrCreate"
    /\ interpreter.contract.value # 0
    /\ interpreter.next_action.inputs.context.apparent_value # 0
    /\ interpreter.next_action.inputs.transfer.value = 0

\* C20: for CALL and CALLCODE the caller pays, after the cost of the call,
\* exactly the forwarded amount of the call-gas computation; the request's
\* gas limit is that amount, plus the call stipend (saturating) when the value
\* is not zero.
C20_CallStipend ==
    [][(last'.op \in {"CALL", "CALLCODE"} /\ Result(interpreter') = "CallOrCreate") =>
        LET value == interpreter.stack[3]
            m == get_memory_input_and_out_ranges(pop(interpreter, 3))
            g == calc_call_gas(m.i, SPEC, value # 0, clamp_u64(interpreter.stack[1]),
                               TRUE, last'.op = "CALL", last'.ans)
            deducted == g.i.gas.remaining - interpreter'.gas.remaining
            gas_limit == interpreter'.next_action.inputs.gas_limit
        IN /\ deducted = g.gas_limit
           /\ gas_limit = IF value # 0 THEN Min(deducted + Schedule.CALL_STIPEND, U64_MAX)
                          ELSE deducted]_vars

\* CALL has just forwarded gas with a value: the request holds the stipend on
\* top of what the caller paid
C20_Witness ==
    /\ last.op = "CALL"
    /\ Result(interpreter) = "CallOrCreate"
    /\ interpreter.next_action.inputs.transfer.value # 0
    /\ interpreter.next_action.inputs.gas_limit > Schedule.CALL_STIPEND
    /\ interpreter.gas.remaining > 0

InWindow(current, n) == current - n >= 1 /\ current - n <= BLOCK_HASH_HISTORY

\* C21: BLOCKHASH that has paid its cost and finds a word n on the stack
\* invokes the Host's block_hash exactly when n is 1 to BLOCK_HASH_HISTORY
\* blocks behind the current block, and then replaces n by the hash the Host
\* answers; in every other case n is replaced by zero and the Host is not
\* invoked
C21_BlockhashWindow ==
    [][(/\ last'.op = "BLOCKHASH"
        /\ Len(interpreter.stack) >= 1
        /\ interpreter.gas.remaining >= Schedule.BLOCKHASH)
       => IF InWindow(host.env.block.number, interpreter.stack[1])
          THEN /\ last'.calls = <<"block_hash">>
               /\ last'.ans.ok
                    => /\ Continues(interpreter')
                       /\ interpreter'.stack = <<last'.ans.value>> \o Tail(interpreter.stack)
          ELSE /\ last'.calls = <<>>
               /\ Continues(interpreter')
               /\ interpreter'.stack = <<0>> \o Tail(interpreter.stack)]_vars

\* the block exactly BLOCK_HASH_HISTORY behind the current one has its hash
C21_Witness ==
    /\ last.op = "BLOCKHASH"
    /\ last.calls = <<"block_hash">>
    /\ host.env.block.number = BLOCK_HASH_HISTORY + 1
    /\ Continues(interpreter)
    /\ last.ans.value = TooBig
    /\ interpreter.stack[1] = last.ans.value

\* the copies, the place of the length among their operands, the places of
\* their offsets and their cost at length zero
Copies == {"EXTCODECOPY", "MCOPY", "LOG0", "LOG1", "LOG2", "LOG3", "LOG4"}
LenAt(op) == IF op = "EXTCODECOPY" THEN 4 ELSE IF op = "MCOPY" THEN 3 ELSE 2
OffsetsAt(op) == IF op = "EXTCODECOPY" THEN {2, 3} ELSE IF op = "MCOPY" THEN {1, 2} ELSE {1}
Topics(op) == CASE op = "LOG1" -> 1 [] op = "LOG2" -> 2 [] op = "LOG3" -> 3 [] op = "LOG4" -> 4
                [] OTHER -> 0
ZeroCost(op, spec, ans) ==
    IF op = "EXTCODECOPY" THEN Unwrap(extcodecopy_cost(spec, 0, ans.is_cold))
    ELSE IF op = "MCOPY" THEN Schedule.VERYLOW
    ELSE Schedule.LOG + Schedule.LOGTOPIC * Topics(op)

\* the frame i with the word w in the place of every offset of op
WithOffsets(i, op, w) ==
    [i EXCEPT !.stack = [k \in 1..Len(@) |-> IF k \in OffsetsAt(op) THEN w ELSE @[k]]]

\* two frames ended alike: all but the stack is equal, and so is the stack
\* unless the handler failed and left its operands there
SameOutcome(a, b) ==
    /\ [a EXCEPT !.stack = Len(@)] = [b EXCEPT !.stack = Len(@)]
    /\ Continues(a) => a.stack = b.stack

\* C22: EXTCODECOPY, MCOPY and LOG<N> whose length operand is zero leave
\* the memory and its paid size as they were, never end with an invalid
\* operand or a memory error, charge exactly their cost at length zero when
\* they go on, and end as they would with any other offsets
C22_ZeroLengthCopy ==
    [][(/\ last'.op \in Copies
        /\ Len(interpreter.stack) >= LenAt(last'.op)
        /\ interpreter.stack[LenAt(last'.op)] = 0)
       => /\ interpreter'.shared_memory = interpreter.shared_memory
          /\ interpreter'.gas.memory = interpreter.gas.memory
          /\ Result(interpreter') \notin {"InvalidOperandOOG", "MemoryOOG"}
          /\ Continues(interpreter')
               => interpreter'.gas.remaining
                     = interpreter.gas.remaining - ZeroCost(last'.op, SPEC, last'.ans)
          /\ \A w \in Word :
                LET r == Handler(last'.op, WithOffsets(interpreter, last'.op, w), host, SPEC,
                                 last'.ans)
                IN /\ SameOutcome(r.interpreter, interpreter')
                   /\ r.host = host'
                   /\ r.calls = last'.calls]_vars

\* EXTCODECOPY of no bytes between offsets that fit no usize went on
C22_Witness ==
    /\ last.op = "EXTCODECOPY"
    /\ Len(last.popped) = 4
    /\ last.popped[2] = TooBig /\ last.popped[3] = TooBig /\ last.popped[4] = 0
    /\ Continues(interpreter)
    /\ interpreter.gas.remaining < 100000

-----------------------------------------------------------------------------
(* Properties of the cache, continued *)

\* C23: basic(a) and load_account(a) that find no record for a query the
\* source's basic once and, when it answers, insert a record: NotExisting with
\* the default info when the source has no info, None with the source's info
\* otherwise, the storage empty; with a record for a they leave the cache as
\* it is without a query, and basic returns no account exactly when the
\* record is NotExisting and the record's info otherwise
C23_LoadOnMiss ==
    [][(last'.op \in {"basic", "load_account"})
       => LET a == last'.a
              src == db.basic[a]
          IN IF a \notin DOMAIN accounts
             THEN /\ last'.calls = <<"basic">>
                  /\ ~last'.ok => accounts' = accounts
                  /\ last'.ok
                       => /\ DOMAIN accounts' = DOMAIN accounts \cup {a}
                          /\ \A b \in DOMAIN accounts : accounts'[b] = accounts[b]
                          /\ accounts'[a].storage = EmptyMap
                          /\ src = None
                               => /\ accounts'[a].account_state = "NotExisting"
                                  /\ accounts'[a].info = DefaultInfo
                          /\ src # None
                               => /\ accounts'[a].account_state = "None"
                                  /\ accounts'[a].info = Unwrap(src)
                          /\ last'.op = "basic" => last'.info = src
             ELSE /\ last'.calls = <<>>
                  /\ last'.ok
                  /\ accounts' = accounts
                  /\ last'.op = "basic"
                       => /\ last'.info = None <=> accounts[a].account_state = "NotExisting"
                          /\ last'.info # None => last'.info = Some(accounts[a].info)]_vars

\* basic has asked a source without info for the address and inserted a
\* NotExisting record
C23_Witness ==
    /\ last.op = "basic"
    /\ last.ok
    /\ last.calls = <<"basic">>
    /\ last.info = None
    /\ accounts[last.a].account_state = "NotExisting"

\* C24: storage(a, k) that finds no record for a queries the source's basic;
\* if the source has info it also queries the source's storage(a, k), inserts
\* a record with that info, marker None and the one slot k, and returns the
\* slot's value; if the source has no info it inserts a NotExisting record
\* with empty storage and returns zero without querying the source's storage
C24_StorageOnMiss ==
    [][(last'.op = "storage" /\ last'.a \notin DOMAIN accounts /\ last'.ok)
       => LET a == last'.a
              k == last'.x
              src == db.basic[a]
          IN /\ DOMAIN accounts' = DOMAIN accounts \cup {a}
             /\ \A b \in DOMAIN accounts : accounts'[b] = accounts[b]
             /\ src # None
                  => /\ last'.calls = <<"basic", "storage">>
                     /\ accounts'[a].info = Unwrap(src)
                     /\ accounts'[a].account_state = "None"
                     /\ DOMAIN accounts'[a].storage = {k}
                     /\ accounts'[a].storage[k] = db.storage[a][k]
                     /\ last'.val = db.storage[a][k]
             /\ src = None
                  => /\ last'.calls = <<"basic">>
                     /\ accounts'[a].account_state = "NotExisting"
                     /\ accounts'[a].storage = EmptyMap
                     /\ last'.val = U256_ZERO]_vars

\* storage has returned zero for an address the source has no info for,
\* although the source holds a non-zero value in the slot
C24_Witness ==
    /\ last.op = "storage"
    /\ last.ok
    /\ last.calls = <<"basic">>
    /\ last.val = U256_ZERO
    /\ db.storage[last.a][last.x] # U256_ZERO
    /\ accounts[last.a].account_state = "NotExisting"

\* C25: after a commit, the record of every address whose delta is not
\* destroyed is StorageCleared when the delta clears storage or the record
\* was StorageCleared before, and Touched in every other case: when the
\* record was None, Touched or NotExisting and when there was none
C25_CommitMarker ==
    [][last'.op = "commit" =>
        \A a \in DOMAIN last'.changes :
            LET d == last'.changes[a] IN
            ~d.is_destroyed =>
                accounts'[a].account_state =
                    IF d.storage_cleared THEN "StorageCleared"
                    ELSE IF a \in DOMAIN accounts
                            /\ accounts[a].account_state = "StorageCleared"
                    THEN "StorageCleared"
                    ELSE "Touched"]_vars

\* a commit that neither clears nor destroys has left a Touched record with
\* the info of its delta
C25_Witness ==
    /\ last.op = "commit"
    /\ \E a \in DOMAIN last.changes :
          /\ ~last.changes[a].is_destroyed
          /\ ~last.changes[a].storage_cleared
          /\ accounts[a].account_state = "Touched"
          /\ accounts[a].info.balance = last.changes[a].info.balance

\* C26: after a commit, the storage of every address whose delta is not
\* destroyed maps every key of the delta to the present value of its slot;
\* when the delta clears storage no other key remains, and otherwise every
\* other key the record had keeps its value and no key is added
C26_CommitMergesStorage ==
    [][last'.op = "commit" =>
        \A a \in DOMAIN last'.changes :
            LET d == last'.changes[a]
                old == IF a \in DOMAIN accounts THEN accounts[a].storage ELSE EmptyMap
                now == accounts'[a].storage
            IN ~d.is_destroyed =>
                /\ \A k \in DOMAIN d.storage :
                       k \in DOMAIN now /\ now[k] = d.storage[k].present_value
                /\ d.storage_cleared => DOMAIN now = DOMAIN d.storage
                /\ ~d.storage_cleared =>
                       /\ DOMAIN now = (DOMAIN old) \cup (DOMAIN d.storage)
                       /\ \A k \in (DOMAIN old) \ (DOMAIN d.storage) : now[k] = old[k]]_vars

\* a commit that neither clears nor destroys has merged a slot whose present
\* value differs from its original one into a storage that holds another key
C26_Witness ==
    /\ last.op = "commit"
    /\ \E a \in DOMAIN last.changes :
          LET d == last.changes[a] IN
          /\ ~d.is_destroyed
          /\ ~d.storage_cleared
          /\ \E k \in DOMAIN d.storage :
                /\ d.storage[k].present_value # d.storage[k].original_value
                /\ accounts[a].storage[k] = d.storage[k].present_value
          /\ (DOMAIN accounts[a].storage) \ (DOMAIN d.storage) # {}

\* the deltas of a batch that bring a non-empty code
WithCode(changes) ==
    {a \in DOMAIN changes :
        /\ ~changes[a].is_destroyed
        /\ changes[a].info.code # None
        /\ Unwrap(changes[a].info.code) # 0}

\* C27: no operation changes or removes the bytecode the contracts map holds
\* under a hash; a commit whose deltas bring no non-empty code and an
\* insert_account_info whose info has no code or the empty code add no
\* entry, and a commit adds the hashes of the non-empty codes of its deltas
\* and no other
C27_ContractsInsertIfAbsent ==
    [][/\ \A h \in DOMAIN contracts : h \in DOMAIN contracts' /\ contracts'[h] = contracts[h]
       /\ (last'.op = "commit" /\ WithCode(last'.changes) = {}) => contracts' = contracts
       /\ (/\ last'.op = "insert_account_info"
           /\ accounts'[last'.a].info.code \in {None, Some(0)}) => contracts' = contracts
       /\ last'.op = "commit"
            => DOMAIN contracts' =
                  (DOMAIN contracts)
                      \cup {CodeHash(Unwrap(last'.changes[a].info.code)) :
                                a \in WithCode(last'.changes)}]_vars

\* a commit has brought a code whose hash the contracts map already held
\* with another bytecode, the one a source answered for that hash
C27_Witness ==
    /\ last.op = "commit"
    /\ \E a \in WithCode(last.changes) :
          LET code == Unwrap(last.changes[a].info.code)
          IN contracts[CodeHash(code)] # code

\* the batch changes cut down to the addresses of D
Only(changes, D) == [a \in D |-> changes[a]]

\* C28: a commit leaves the same accounts and contracts in whatever order
\* its batch yields the addresses, and the same as one commit per address in
\* any order; the record of an address outside the batch is not changed
C28_CommitOrderIndependent ==
    [][last'.op = "commit" =>
        LET changes == last'.changes
            D == DOMAIN changes
        IN /\ \A order \in Orders(D) :
                 /\ commit(Cache, changes, order).cache = Cache'
                 /\ LET RECURSIVE one_by_one(_, _)
                         one_by_one(c, o) ==
                             IF o = <<>> THEN c
                             ELSE one_by_one(commit(c, Only(changes, {Head(o)}),
                                                    <<Head(o)>>).cache,
                                             Tail(o))
                     IN one_by_one(Cache, order) = Cache'
           /\ DOMAIN accounts' = (DOMAIN accounts) \cup D
           /\ \A b \in (DOMAIN accounts) \ D : accounts'[b] = accounts[b]]_vars

\* one commit has destroyed one address and brought code to another
C28_Witness ==
    /\ last.op = "commit"
    /\ \E a, b \in DOMAIN last.changes :
          /\ a # b
          /\ last.changes[a].is_destroyed
          /\ b \in WithCode(last.changes)
          /\ accounts[a].account_state = "NotExisting"
          /\ accounts[b].info.code # None

-----------------------------------------------------------------------------
(* Properties of the handlers, continued *)

\* the init code limit the Host's configuration gives
InitCodeLimit(h) ==
    LET limit == h.env.cfg.limit_contract_code_size
    IN IF limit = None THEN MAX_INITCODE_SIZE ELSE Min(2 * Unwrap(limit), USIZE_MAX)

\* C29: from SHANGHAI on, CREATE and CREATE2 in a frame that is not static
\* with a non-empty init code longer than the limit end with
\* CreateInitCodeSizeLimit with no gas charged, the memory as it was and no
\* request; no init code within the limit, the limit included, ends so
C29_InitCodeLimit ==
    [][(/\ last'.op \in Creates
        /\ enabled(SPEC, SpecId.SHANGHAI)
        /\ ~interpreter.is_static
        /\ Len(interpreter.stack) >= 3
        /\ interpreter.stack[3] # 0
        /\ interpreter.stack[3] <= USIZE_MAX)
       => IF interpreter.stack[3] > InitCodeLimit(host)
          THEN /\ Result(interpreter') = "CreateInitCodeSizeLimit"
               /\ interpreter'.gas = interpreter.gas
               /\ interpreter'.shared_memory = interpreter.shared_memory
               /\ interpreter'.next_action = interpreter.next_action
          ELSE Result(interpreter') # "CreateInitCodeSizeLimit"]_vars

\* CREATE with init code one byte longer than MAX_INITCODE_SIZE, no code
\* size configured, was refused with the gas that would have paid for it
C29_Witness ==
    /\ last.op = "CREATE"
    /\ Len(last.popped) = 3
    /\ last.popped[3] = MAX_INITCODE_SIZE + 1
    /\ host.env.cfg.limit_contract_code_size = None
    /\ Result(interpreter) = "CreateInitCodeSizeLimit"
    /\ interpreter.gas.remaining > Schedule.CREATE + initcode_cost(MAX_INITCODE_SIZE + 1)

\* C30: the request of a call names the popped target as code_address and
\* gives the callee, for CALL, the target as address, the current contract
\* as caller, the popped value, and a transfer of it from the current
\* contract to the target; for CALLCODE, the current contract as address and
\* caller, the popped value, and a transfer of it from the current contract
\* to itself; for DELEGATECALL, the current contract as address and the
\* caller and value of the current frame; for STATICCALL, the target as
\* address, the current contract as caller and the value zero
C30_CallContexts ==
    [][(last'.op \in Calls /\ Result(interpreter') = "CallOrCreate")
       => LET inputs == interpreter'.next_action.inputs
              context == inputs.context
              to == interpreter.stack[2]
              value == interpreter.stack[3]
              me == interpreter.contract
          IN /\ context.code_address = to
             /\ last'.op = "CALL"
                  => /\ context.address = to
                     /\ context.caller = me.address
                     /\ context.apparent_value = value
                     /\ inputs.transfer = [source |-> me.address, target |-> to,
                                           value |-> value]
             /\ last'.op = "CALLCODE"
                  => /\ context.address = me.address
                     /\ context.caller = me.address
                     /\ context.apparent_value = value
                     /\ inputs.transfer = [source |-> me.address, target |-> me.address,
                                           value |-> value]
             /\ last'.op = "DELEGATECALL"
                  => /\ context.address = me.address
                     /\ context.caller = me.caller
                     /\ context.apparent_value = me.value
             /\ last'.op = "STATICCALL"
                  => /\ context.address = to
                     /\ context.caller = me.address
                     /\ context.apparent_value = 0]_vars

\* DELEGATECALL from a frame that was called with a value: the callee runs
\* the code of another address as the current contract, with the frame's
\* caller and value
C30_Witness ==
    /\ last.op = "DELEGATECALL"
    /\ Result(interpreter) = "CallOrCreate"
    /\ interpreter.contract.value # 0
    /\ interpreter.next_action.inputs.context.code_address = TooBig
    /\ interpreter.next_action.inputs.context.address = interpreter.contract.address
    /\ interpreter.next_action.inputs.context.caller = interpreter.contract.caller
    /\ interpreter.next_action.inputs.context.caller # interpreter.contract.address
    /\ interpreter.next_action.inputs.context.apparent_value = interpreter.contract.value

\* C31: LOG<N> in a frame that is not static, with offset and length on the
\* stack, that did not fail on its operands, its gas or the memory: with
\* fewer than N words under the length it ends with StackUnderflow, the
\* cost of the log charged and no log forwarded; otherwise it forwards one
\* log with the address of the current contract, the next N words in pop
\* order as topics and the bytes of the memory from offset as data
C31_LogDepth ==
    [][(/\ last'.op \in Copies \ {"EXTCODECOPY", "MCOPY"}
        /\ ~interpreter.is_static
        /\ Len(interpreter.stack) >= 2)
       => LET N == Topics(last'.op)
              offset == interpreter.stack[1]
              len == interpreter.stack[2]
              rest == SubSeq(interpreter.stack, 3, Len(interpreter.stack))
              failed == Result(interpreter') \in {"InvalidOperandOOG", "OutOfGas", "MemoryOOG"}
          IN /\ failed => host'.logs = host.logs /\ last'.calls = <<>>
             /\ (~failed /\ Len(rest) < N)
                  => /\ Result(interpreter') = "StackUnderflow"
                     /\ host'.logs = host.logs
                     /\ last'.calls = <<>>
                     /\ interpreter'.gas.remaining
                           <= interpreter.gas.remaining - Unwrap(log_cost(N, len))
             /\ (~failed /\ Len(rest) >= N)
                  => /\ Continues(interpreter')
                     /\ last'.calls = <<"log">>
                     /\ interpreter'.stack = SubSeq(rest, N + 1, Len(rest))
                     /\ host'.logs =
                           Append(host.logs,
                                  [address |-> interpreter.contract.address,
                                   topics |-> SubSeq(rest, 1, N),
                                   data |-> SubSeq(interpreter'.shared_memory,
                                                   offset + 1, offset + len)])]_vars

\* LOG2 found one word under offset and length: it has charged the cost of
\* a log of no bytes and ended with StackUnderflow
C31_Witness ==
    /\ last.op = "LOG2"
    /\ Result(interpreter) = "StackUnderflow"
    /\ Len(last.popped) = 2
    /\ last.popped[2] = 0
    /\ Len(interpreter.stack) = 1
    /\ host.logs = <<>>
    /\ interpreter.gas.remaining + Unwrap(log_cost(2, 0)) \in GasLimits

\* C32: SELFDESTRUCT in a frame that is not static, with its target on the
\* stack, asks the Host first; when the Host answers it records the refund
\* exactly when the revision is before LONDON and the account was not
\* already destroyed, whether or not the charge that follows succeeds, and
\* it ends with SelfDestruct exactly when the gas left covers the cost
C32_SelfdestructOrder ==
    [][(/\ last'.op = "SELFDESTRUCT"
        /\ ~interpreter.is_static
        /\ Len(interpreter.stack) >= 1)
       => LET res == last'.ans
              cost == selfdestruct_cost(SPEC, res)
              due == IF SPEC < SpecId.LONDON /\ ~res.previously_destroyed
                     THEN Schedule.SELFDESTRUCT ELSE 0
          IN /\ last'.calls = <<"selfdestruct">>
             /\ ~res.ok => /\ Result(interpreter') = "FatalExternalError"
                            /\ interpreter'.gas = interpreter.gas
             /\ res.ok
                  => /\ interpreter'.gas.refunded = interpreter.gas.refunded + due
                     /\ Result(interpreter') = "SelfDestruct"
                           <=> interpreter.gas.remaining >= cost
                     /\ interpreter.gas.remaining >= cost
                           => interpreter'.gas.remaining = interpreter.gas.remaining - cost
                     /\ interpreter.gas.remaining < cost
                           => Result(interpreter') = "OutOfGas"]_vars

\* before LONDON the refund was recorded and the charge that followed it
\* failed: the frame ended out of gas with the refund in its gas record
C32_Witness ==
    /\ last.op = "SELFDESTRUCT"
    /\ last.ans.ok
    /\ ~last.ans.previously_destroyed
    /\ SPEC = SpecId.BERLIN
    /\ Result(interpreter) = "OutOfGas"
    /\ interpreter.gas.refunded = Schedule.SELFDESTRUCT
    /\ host.selfdestructs # <<>>

\* C33: when EXTCODECOPY, MCOPY or LOG<N> ends with the invalid-operand
\* outcome, the gas left is what it was before the handler ran and the
\* memory has not been resized
C33_InvalidOperandBeforeCharge ==
    [][(/\ last'.op \in Copies
        /\ Result(interpreter') = "InvalidOperandOOG")
       => /\ interpreter'.gas = interpreter.gas
          /\ interpreter'.shared_memory = interpreter.shared_memory]_vars

\* C34: TSTORE before CANCUN and CREATE2 before PETERSBURG, run in a static
\* frame, end with NotActivated and not with the static-context violation
C34_GateBeforeStaticGuard ==
    [][(/\ \/ last'.op = "TSTORE" /\ SPEC < SpecId.CANCUN
           \/ last'.op = "CREATE2" /\ SPEC < SpecId.PETERSBURG
        /\ interpreter.is_static)
       => Result(interpreter') = "NotActivated"]_vars

MutablePath == {"basic", "storage", "code_by_hash", "block_hash", "load_account",
                "insert_account_storage", "replace_account_storage"}

\* C35: a mutable-path operation that returns an error has been refused by
\* the source, by the last query it made, and leaves accounts, contracts
\* and block_hashes as they were before the call
C35_ErrorLeavesCache ==
    [][(last'.op \in MutablePath /\ ~last'.ok)
       => /\ UNCHANGED <<accounts, contracts, block_hashes>>
          /\ last'.calls # <<>>
          /\ last'.info = None]_vars

\* storage on an address without a record: the source answered basic with
\* an account and refused the slot, and no record was inserted
C35_Witness ==
    /\ last.op = "storage"
    /\ ~last.ok
    /\ last.calls = <<"basic", "storage">>
    /\ db.basic[last.a] # None
    /\ last.a \notin DOMAIN accounts

\* C36: destroy-then-touch.  When the last commit applied a destroyed delta
\* for a and the next one applies to a a delta that neither clears nor
\* destroys, a storage read at a of a key that delta does not write returns
\* zero, not the value of the source
C36_DestroyedStaysZero ==
    [][(/\ last.op = "commit"
        /\ last'.op = "commit")
       => \A a \in (DOMAIN last.changes) \cap (DOMAIN last'.changes) :
              (/\ last.changes[a].is_destroyed
               /\ ~last'.changes[a].is_destroyed
               /\ ~last'.changes[a].storage_cleared)
              => \A k \in Key \ DOMAIN last'.changes[a].storage :
                     LET r == storage(Cache', a, k, {"basic", "storage"})
                     IN r.ok /\ r.val = U256_ZERO]_vars

\* C37: after insert_account_info(a, info), whatever a's record was before,
\* basic(a) returns on both paths an existing account with the nonce and
\* the balance of the info the record now holds
C37_InsertedInfoIsReported ==
    [][last'.op = "insert_account_info"
       => LET a == last'.a
              inf == accounts'[a].info
          IN \A r \in {basic(Cache', a, {"basic"}), basic_ref(Cache', a, {"basic"})} :
                 /\ r.ok
                 /\ r.info # None
                 /\ Unwrap(r.info).nonce = inf.nonce
                 /\ Unwrap(r.info).balance = inf.balance]_vars

\* C38: a call request that CALL, CALLCODE or DELEGATECALL issues from a
\* static frame is static, every request of STATICCALL is static, and
\* CREATE and CREATE2 issue no request from a static frame
C38_StaticKept ==
    [][LET request == interpreter'.next_action
       IN /\ (/\ last'.op \in Calls \ {"STATICCALL"}
              /\ interpreter.is_static
              /\ request.kind = "Call")
             => request.inputs.is_static
          /\ (last'.op = "STATICCALL" /\ request.kind = "Call")
             => request.inputs.is_static
          /\ (last'.op \in Creates /\ interpreter.is_static)
             => /\ request.kind = "None"
                /\ Result(interpreter') # "CallOrCreate"]_vars

\* CALLCODE with a value has issued its request from a static frame, and
\* the request is static
C38_Witness ==
    /\ last.op = "CALLCODE"
    /\ interpreter.is_static
    /\ Result(interpreter) = "CallOrCreate"
    /\ interpreter.next_action.kind = "Call"
    /\ interpreter.next_action.inputs.is_static
    /\ interpreter.next_action.inputs.transfer.value # 0

====
